---- MODULE Spec2Model ----
(***************************************************************************)
(* Host-side bridge of aleo-utils-go: the wrapper (runtime host), its      *)
(* sessions and the six session operations, in both session               *)
(* implementations of the repository: the byte-key one                    *)
(* (src/unnamed/part_000) and the string-key one (src/session.go).        *)
(*                                                                         *)
(* The guest module is opaque: every guest call answers with an error, a   *)
(* panic, no result word, or a result word together with the bytes the     *)
(* guest left in the region the word names.  Each operation is one action; *)
(* its body is translated statement by statement, Go's defer stack and     *)
(* recover() included, and yields the set of outcomes the guest's answers  *)
(* allow.                                                                  *)
(***************************************************************************)
EXTENDS Integers, Sequences, FiniteSets, TLC

VARIABLES
    impl,      \* which session implementation the build contains: "bytes" | "string"
    guest,     \* the guest module loaded: "any" (answers anything) | "working" |
               \* "probe" (answers with result words of every shape)
    wrapper,   \* aleoWrapper: [exists, runtimeActive, runtimeNil, runtimeClosed]
    sess,      \* session id -> [exists, closed, mem]
    last,      \* the last call made by the caller, its guest trace and what it returned
    held,      \* a buffer the caller still holds from an earlier successful call
    nops       \* number of session operations invoked so far

vars == <<impl, guest, wrapper, sess, last, held, nops>>

-----------------------------------------------------------------------------
(* Program constants (src/wrapper.go:22-28) *)

PRIVATE_KEY_SIZE == 59
ADDRESS_SIZE == 63
SIGNATURE_SIZE == 216
MESSAGE_FORMAT_BLOCK_SIZE == 16 * 32
MAX_FORMAT_MESSAGE_CHUNKS == 32

ErrNoModule == "session module is closed"
ErrNoRuntime == "no runtime, create new wrapper"
NoErr == "nil"

-----------------------------------------------------------------------------
(* Bounds of the model *)

\* bytes of guest linear memory
MemSize == 4096
\* the base of one half of a result word.  The code's halves are 32 bits wide
\* (base 2^32); TLC's integers end at 2^31 - 1, so the model's halves are
\* narrower, and every cast and shift below is computed with this base.
HalfBase == 32768
\* session operations per behaviour
MaxOps == 2
\* operations the caller makes on a session with a working guest
MaxCycleOps == 7
\* operations the caller makes in a round trip
MaxRoundTripOps == 3
\* operations the callers of two sessions make between them
MaxTwoOps == 2
\* operations the caller makes on a session whose guest returns probe words
MaxDecodeOps == 1
\* calls the caller makes with their entry and return as separate steps
MaxReturnOps == 1
\* calls of NewSession and Close that goroutines make on one wrapper
MaxCloseOps == 3

\* the sessions a wrapper hands out in one behaviour
Sessions == { 1 }
\* the sessions of two concurrent callers
TwoSessions == { 1, 2 }

-----------------------------------------------------------------------------
(* Integers of the Go code *)

\* uint32(x) of a uint64 x
Uint32(x) == x % HalfBase

\* a packed result word: pointer in the low half, length in the high half
Word(p, l) == l * HalfBase + p

Rep(b, n) == [i \in 1..n |-> b]

-----------------------------------------------------------------------------
(* Guest linear memory (wazero api.Memory): zero-initialised; only the     *)
(* non-zero cells are stored.                                              *)

EmptyMem == [a \in {} |-> 0]

\* hasSize: the range [ptr, ptr+n) lies inside the memory
InRange(ptr, n) == ptr + n <= MemSize

MemBytes(mem, ptr, n) ==
    [i \in 1..n |-> IF (ptr + i - 1) \in DOMAIN mem THEN mem[ptr + i - 1] ELSE 0]

MemStore(mem, ptr, data) ==
    LET n == Len(data)
        keep == {a \in DOMAIN mem : a < ptr \/ a >= ptr + n}
        nz == {ptr + j - 1 : j \in {i \in 1..n : data[i] # 0}}
    IN [a \in keep \cup nz |-> IF a \in nz THEN data[a - ptr + 1] ELSE mem[a]]

-----------------------------------------------------------------------------
(* Values returned to the caller.  A []byte is nil or a buffer; a buffer   *)
(* is either host-owned storage (bytes) or a view of guest memory          *)
(* (alias, ptr, len), which is what Memory().Read returns.                 *)

NilBuf == [nil |-> TRUE, alias |-> FALSE, bytes |-> <<>>, ptr |-> 0, len |-> 0]
Buf(b) == [nil |-> FALSE, alias |-> FALSE, bytes |-> b, ptr |-> 0, len |-> 0]
View(p, n) == [nil |-> FALSE, alias |-> TRUE, bytes |-> <<>>, ptr |-> p, len |-> n]
\* a Go string: always host-owned; its zero value is ""
EmptyStr == Buf(<<>>)

\* the bytes a caller sees when it looks at value v while guest memory is mem
Deref(v, mem) == IF v.alias THEN MemBytes(mem, v.ptr, v.len) ELSE v.bytes

-----------------------------------------------------------------------------
(* Panics and their conversion *)

NoPanic == [type |-> "none", text |-> ""]
PanicString == [type |-> "string", text |-> "guest panic text"]
PanicError == [type |-> "error", text |-> "guest panic error value"]
PanicOther == [type |-> "other", text |-> ""]
\* result[0] of an empty result slice: a runtime.Error
IndexPanic == [type |-> "error", text |-> "runtime error: index out of range [0] with length 0"]

\* recoverErr without its default case: err stays nil for other payloads
recoverErrNoDefault(p) ==
    CASE p.type = "string" -> p.text
      [] p.type = "error" -> p.text
      [] OTHER -> NoErr

\* recoverErr that wraps an error payload in a new error
recoverErrWrapsError(p) ==
    CASE p.type = "string" -> p.text
      [] p.type = "error" -> "panic: " \o p.text
      [] OTHER -> "unknown panic"

\* the switch of the deferred recover() (part_000:100-110)
recoverErr(p) ==
    CASE p.type = "string" -> p.text
      [] p.type = "error" -> p.text
      [] OTHER -> "unknown panic"

-----------------------------------------------------------------------------
(* What the guest may answer to a call *)

RErr == [kind |-> "err", payload |-> NoPanic, word |-> 0, bytes |-> <<>>]
RPanic(p) == [kind |-> "panic", payload |-> p, word |-> 0, bytes |-> <<>>]
REmpty == [kind |-> "empty", payload |-> NoPanic, word |-> 0, bytes |-> <<>>]
RWord(w, b) == [kind |-> "word", payload |-> NoPanic, word |-> w, bytes |-> b]

\* pointers the guest allocator hands out
PtrA == 1024
PtrB == 2048
\* a pointer whose region runs past the end of memory
PtrEnd == MemSize - 2

\* answers of alloc: failure, panic, no result, pointer 0, a region, a region
\* past the end of memory
AnyAllocResps ==
    { RErr, RPanic(PanicOther), REmpty,
      RWord(0, <<>>), RWord(PtrA, <<>>), RWord(PtrEnd, <<>>) }

\* a working guest returns a pointer with room for the buffer behind it
AllocResps ==
    IF guest = "any" THEN AnyAllocResps
    ELSE { r \in AnyAllocResps : r.kind = "word" /\ r.word <= PtrA }

\* answers of dealloc (its result is never read)
AnyDeallocResps == { RWord(0, <<>>), RErr, RPanic(PanicError) }

DeallocResps ==
    IF guest = "any" THEN AnyDeallocResps
    ELSE { r \in AnyDeallocResps : r.kind = "word" }

\* answers common to every result-producing entry point
FailResps ==
    { RErr, RPanic(PanicString), REmpty,
      RWord(0, <<>>),                       \* the zero word
      RWord(Word(0, 3), <<>>),              \* pointer field 0, length field 3
      RWord(Word(PtrB, 0), <<>>),           \* length field 0
      RWord(Word(PtrEnd, 4), <<>>) }        \* region outside memory

NL == 10

AnyGuestResps(fn) ==
    FailResps \cup
    CASE fn = "new_private_key" ->
           { RWord(Word(PtrB, PRIVATE_KEY_SIZE), Rep(75, PRIVATE_KEY_SIZE)),
             RWord(Word(PtrB, 5), Rep(75, 5)) }
      [] fn = "get_address" ->
           { RWord(Word(PtrA, ADDRESS_SIZE), Rep(97, ADDRESS_SIZE)) }
      [] fn = "sign" ->
           { RWord(Word(PtrB, SIGNATURE_SIZE), Rep(115, SIGNATURE_SIZE)),
             RWord(Word(PtrB, 6), Rep(115, 6)) }
      [] fn = "format_message" ->
           { RWord(Word(PtrB, 5), <<123, NL, 49, NL, 125>>) }
      [] fn = "formatted_message_to_bytes" ->
           { RWord(Word(PtrB, 3), <<65, NL, 66>>) }
      [] fn = "hash_message" ->
           { RWord(Word(PtrB, 4), <<49, 117, 49, 50>>) }
      [] fn = "hash_message_bytes" ->
           { RWord(Word(PtrA, 3), <<7, 0, 9>>) }

\* the sizes of the results a working guest produces (wrapper.go:23-25)
ResultSize(fn) ==
    CASE fn = "new_private_key" -> PRIVATE_KEY_SIZE
      [] fn = "get_address" -> ADDRESS_SIZE
      [] fn = "sign" -> SIGNATURE_SIZE
      [] OTHER -> 0

\* a working guest returns a region inside guest memory that holds a result of
\* the size its function produces
GoodResp(fn, r) ==
    LET ptr == r.word % HalfBase
        len == r.word \div HalfBase
    IN /\ r.kind = "word"
       /\ ptr # 0 /\ len # 0 /\ ptr + len <= MemSize
       /\ Len(r.bytes) = len
       /\ ResultSize(fn) # 0 => len = ResultSize(fn)

\* values of one half of a result word: the smallest, the largest, and values
\* around the size of guest memory
ProbeHalves ==
    { 0, 1, 2, 255, 256, PtrA, PtrB, MemSize - 1, MemSize, HalfBase \div 2,
      HalfBase - 2, HalfBase - 1 }

\* result words with every pair of those halves
ProbeWords == { l * HalfBase + p : p \in ProbeHalves, l \in ProbeHalves }

GuestResps(fn) ==
    IF guest = "any" THEN AnyGuestResps(fn)
    ELSE IF guest = "probe" THEN { RWord(w, <<>>) : w \in ProbeWords }
    ELSE { r \in AnyGuestResps(fn) : GoodResp(fn, r) }

\* The message format of the working guest. format_message renders a message
\* as text: an opening brace, a line with the message length and the chunk
\* count, a line with the message bytes, a closing brace; the digits are
\* lower-case hexadecimal. formatted_message_to_bytes reads that text without
\* its line breaks and returns the message, or the zero word for anything else.
HexDigit(n) == IF n < 10 THEN 48 + n ELSE 87 + n

\* 16 for a character that is no hexadecimal digit
HexValue(ch) ==
    IF ch >= 48 /\ ch <= 57 THEN ch - 48
    ELSE IF ch >= 97 /\ ch <= 102 THEN ch - 87
    ELSE 16

HexOf(m) ==
    [i \in 1..(2 * Len(m)) |->
        HexDigit(IF i % 2 = 1 THEN m[(i + 1) \div 2] \div 16 ELSE m[i \div 2] % 16)]

HexHeader(len, chunks) ==
    << HexDigit((len \div 4096) % 16), HexDigit((len \div 256) % 16),
       HexDigit((len \div 16) % 16), HexDigit(len % 16),
       HexDigit((chunks \div 16) % 16), HexDigit(chunks % 16) >>

guestFormat(m, chunks) ==
    <<123, NL>> \o HexHeader(Len(m), chunks) \o <<NL>> \o HexOf(m) \o <<NL, 125>>

guestRecover(text) ==
    LET n == Len(text)
        inner == SubSeq(text, 2, n - 1)
        digitsOk == \A i \in DOMAIN inner : HexValue(inner[i]) < 16
        len == 4096 * HexValue(inner[1]) + 256 * HexValue(inner[2])
               + 16 * HexValue(inner[3]) + HexValue(inner[4])
    IN IF n >= 8 /\ text[1] = 123 /\ text[n] = 125 /\ digitsOk /\ Len(inner) = 6 + 2 * len
       THEN [ok |-> TRUE,
             bytes |-> [i \in 1..len |->
                          16 * HexValue(inner[6 + 2 * i - 1]) + HexValue(inner[6 + 2 * i])]]
       ELSE [ok |-> FALSE, bytes |-> <<>>]

\* what the loaded guest answers to fn called on the buffer holding input
GuestAnswers(fn, input, extra) ==
    IF guest = "working" /\ fn = "format_message"
    THEN LET text == guestFormat(input, extra[1])
         IN { RWord(Word(PtrB, Len(text)), text) }
    ELSE IF guest = "working" /\ fn = "formatted_message_to_bytes"
    THEN LET rec == guestRecover(input)
         IN { IF rec.ok THEN RWord(Word(PtrB, Len(rec.bytes)), rec.bytes)
              ELSE RWord(0, <<>>) }
    ELSE GuestResps(fn)

-----------------------------------------------------------------------------
(* The running operation: guest memory, the trace of guest calls and       *)
(* memory accesses made so far, and Go's stack of deferred calls.          *)

\* one guest call or memory access: the entry point, its arguments, the bytes
\* written, how it ended, the word it returned, and the statement that made it
Ev(fn, args, data, res, ret, site) ==
    [fn |-> fn, args |-> args, data |-> data, res |-> res, ret |-> ret, site |-> site]

NewCtx(mem) == [mem |-> mem, trace |-> <<>>, defers |-> <<>>, ndefer |-> 0, snap |-> <<>>]

\* api.Function.Call: the guest runs, may leave bytes in the region it returns
Call(c, fn, args, r, site) ==
    LET p == Uint32(r.word)
        wr == r.kind = "word" /\ r.bytes # <<>> /\ InRange(p, Len(r.bytes))
    IN [c EXCEPT !.mem = IF wr THEN MemStore(@, p, r.bytes) ELSE @,
                 !.trace = Append(@, Ev(fn, args, <<>>,
                                        IF r.kind = "word" THEN "ok" ELSE r.kind,
                                        r.word, site))]

\* memWrite whose caller does not look at the result of Write
memWriteUnchecked(c, ptr, data, site) ==
    LET ok == InRange(ptr, Len(data))
    IN [ok |-> TRUE,
        c |-> [c EXCEPT !.mem = IF ok THEN MemStore(@, ptr, data) ELSE @,
                        !.trace = Append(@, Ev("mem.Write", <<ptr, Len(data)>>, data,
                                               IF ok THEN "ok" ELSE "fail", 0, site))]]

\* Memory().Write(ptr, data)
memWrite(c, ptr, data, site) ==
    LET ok == InRange(ptr, Len(data))
    IN [ok |-> ok,
        c |-> [c EXCEPT !.mem = IF ok THEN MemStore(@, ptr, data) ELSE @,
                        !.trace = Append(@, Ev("mem.Write", <<ptr, Len(data)>>, data,
                                               IF ok THEN "ok" ELSE "fail", 0, site))]]

\* Memory().Read(ptr, n): a view of guest memory, not a copy
memRead(c, ptr, n, site) ==
    LET ok == InRange(ptr, n)
    IN [ok |-> ok,
        view |-> View(ptr, n),
        c |-> [c EXCEPT !.trace = Append(@, Ev("mem.Read", <<ptr, n>>, <<>>,
                                               IF ok THEN "ok" ELSE "fail", 0, site))]]

\* copyOut without the copy: the slice Memory().Read returned is handed out
copyOutAlias(v, mem) == v

\* make + copy (or string(...)): host-owned storage holding the viewed bytes
copyOut(v, mem) == Buf(MemBytes(mem, v.ptr, v.len))

\* a deferred call: an optional zero-fill of [zptr, zptr+zlen) and then
\* dealloc(ptr, size)
DeferItem(site, ptr, size, zero, zptr, zlen) ==
    [site |-> site, ptr |-> ptr, size |-> size, zero |-> zero, zptr |-> zptr, zlen |-> zlen]

\* Defer with the defer statement left out
DeferForgotten(c, d) == c

\* a defer statement that registers the call twice
DeferTwice(c, d) == [c EXCEPT !.defers = Append(Append(@, d), d), !.ndefer = @ + 2]

\* a defer statement
Defer(c, d) == [c EXCEPT !.defers = Append(@, d), !.ndefer = @ + 1]

\* deallocateSafe (part_000:85-88), deferred: the capacity argument is dropped
deallocateSafe(ptr, actualCapacity, site) == DeferItem(site, ptr, 0, FALSE, 0, 0)

\* defer s.deallocate.Call(ctx, ptr, size)
deallocateCall(ptr, size, site) == DeferItem(site, ptr, size, FALSE, 0, 0)

\* recoverPanic that turns a failed deferred dealloc into the operation's error
recoverPanicReportsCleanup(c, st) ==
    LET p == st.pan.type # "none"
        failed == \E i \in DOMAIN c.trace : c.trace[i].fn = "dealloc" /\ c.trace[i].res = "err"
    IN [mem |-> c.mem, trace |-> c.trace, snap |-> c.snap, ndefer |-> c.ndefer,
        vals |-> IF p \/ failed THEN st.zero ELSE st.vals,
        err |-> IF p THEN recoverErr(st.pan)
                ELSE IF failed THEN "cleanup failed" ELSE st.err,
        pan |-> p, payload |-> st.pan, escaped |-> FALSE]

\* the first deferred function of every operation: recover() and the reset of
\* the named results
recoverPanic(c, st) ==
    LET p == st.pan.type # "none"
    IN [mem |-> c.mem, trace |-> c.trace, snap |-> c.snap, ndefer |-> c.ndefer,
        vals |-> IF p THEN st.zero ELSE st.vals,
        err |-> IF p THEN recoverErr(st.pan) ELSE st.err,
        pan |-> p, payload |-> st.pan, escaped |-> FALSE]

\* runDefer without the zero-fill
runDeferNoZero(c, d, r) == Call(c, "dealloc", <<d.ptr, d.size>>, r, d.site)

\* one deferred cleanup: best-effort zero-fill, then the dealloc call
runDefer(c, d, r) ==
    LET zok == InRange(d.zptr, d.zlen)
        c1 == IF d.zero
              THEN [c EXCEPT !.mem = IF zok THEN MemStore(@, d.zptr, Rep(0, d.zlen)) ELSE @,
                             !.trace = Append(@, Ev("mem.Write", <<d.zptr, d.zlen>>,
                                                    IF zok THEN Rep(0, d.zlen) ELSE <<>>,
                                                    IF zok THEN "ok" ELSE "fail", 0, "zero"))]
              ELSE c
    IN Call(c1, "dealloc", <<d.ptr, d.size>>, r, d.site)

\* RunDefers in which a panic of a deferred call ends the cleanup
RECURSIVE RunDefersStopsAtPanic(_, _)
RunDefersStopsAtPanic(c, st) ==
    IF c.defers = <<>> THEN { recoverPanic(c, st) }
    ELSE LET n == Len(c.defers)
             d == c.defers[n]
         IN UNION { IF r.kind = "panic"
                    THEN { recoverPanic([runDefer(c, d, r) EXCEPT !.defers = <<>>],
                                        [st EXCEPT !.pan = r.payload]) }
                    ELSE RunDefersStopsAtPanic([runDefer(c, d, r) EXCEPT
                                                   !.defers = SubSeq(c.defers, 1, n - 1)], st)
                    : r \in DeallocResps }

\* RunDefers that runs the deferred calls first-registered first
RECURSIVE RunDefersInOrder(_, _)
RunDefersInOrder(c, st) ==
    IF c.defers = <<>> THEN { recoverPanic(c, st) }
    ELSE LET d == c.defers[1]
         IN UNION { RunDefersInOrder([runDefer(c, d, r) EXCEPT !.defers = Tail(c.defers)],
                                     IF r.kind = "panic" THEN [st EXCEPT !.pan = r.payload] ELSE st)
                    : r \in DeallocResps }

\* function exit: the deferred calls run last-registered first, each whatever
\* the earlier ones did; a panic raised by one replaces the pending one
RECURSIVE RunDefers(_, _)
RunDefers(c, st) ==
    IF c.defers = <<>> THEN { recoverPanic(c, st) }
    ELSE LET n == Len(c.defers)
             d == c.defers[n]
         IN UNION { RunDefers([runDefer(c, d, r) EXCEPT !.defers = SubSeq(c.defers, 1, n - 1)],
                              IF r.kind = "panic" THEN [st EXCEPT !.pan = r.payload] ELSE st)
                    : r \in DeallocResps }

\* return vals, err
Return(c, vals, err, zero) ==
    RunDefers(c, [vals |-> vals, err |-> err, pan |-> NoPanic, zero |-> zero])

\* a panic raised in the body
Panic(c, payload, zero) ==
    RunDefers(c, [vals |-> zero, err |-> NoErr, pan |-> payload, zero |-> zero])

\* the liveness check's return: nothing is deferred yet
Closed(S, zero) ==
    { [mem |-> S.mem, trace |-> <<>>, snap |-> <<>>, ndefer |-> 0, vals |-> zero,
       err |-> ErrNoModule,
       pan |-> FALSE, payload |-> NoPanic, escaped |-> FALSE] }

\* allocateSafe (part_000:74-82)
allocateSafe(c, size, site) ==
    { [c |-> Call(c, "alloc", <<size>>, r, site),
       kind |-> IF r.kind = "word" THEN "ok" ELSE IF r.kind = "err" THEN "err" ELSE "panic",
       payload |-> IF r.kind = "panic" THEN r.payload
                   ELSE IF r.kind = "empty" THEN IndexPanic ELSE NoPanic,
       ptr |-> r.word] : r \in AllocResps }

-----------------------------------------------------------------------------
(* FormatMessage, RecoverMessage, HashMessageToString, HashMessage.  The   *)
(* four bodies are the same statements around a different guest entry      *)
(* point; the two implementations differ in the check for an absent result *)
(* word, which only the byte-key one has.                                  *)

\* StripNewlines that removes the first newline only
StripFirstNewline(b) ==
    LET nl == { i \in DOMAIN b : b[i] = NL }
    IN IF nl = {} THEN b
       ELSE LET f == CHOOSE i \in nl : \A j \in nl : i <= j
            IN SubSeq(b, 1, f - 1) \o SubSeq(b, f + 1, Len(b))

\* strings.ReplaceAll(string(b), "\n", "") (part_000:276)
StripNewlines(b) == SelectSeq(b, LAMBDA x : x # NL)

\* resultValue that returns the guest's text as it is
resultValueKeepsNewlines(op, v, mem) == copyOut(v, mem)

\* what the operation makes of the bytes it read: FormatMessage strips the
\* newlines of its copy, the others return the copy (or a string of it)
resultValue(op, v, mem) ==
    IF op = "FormatMessage" THEN Buf(StripNewlines(Deref(copyOut(v, mem), mem)))
    ELSE copyOut(v, mem)

\* from the decoded result word to the return (part_000:256-278)
readResult(c, op, word, zero, T) ==
    LET strLen == Uint32(word \div HalfBase)
        strPtr == Uint32(word)
        rd == memRead(c, strPtr, strLen, "result")
    IN IF ~rd.ok THEN Return(rd.c, zero, T.read, zero)
       ELSE LET c1 == Defer(rd.c, deallocateCall(strPtr, strLen, "result"))
                c2 == [c1 EXCEPT !.snap = MemBytes(c1.mem, strPtr, strLen)]
            IN Return(c2, <<resultValue(op, rd.view, c2.mem)>>, NoErr, zero)

\* afterCall that takes an absent result word for the word 0
afterCallEmptyAsZero(c, im, op, r, zero, T) ==
    IF r.kind = "panic" THEN Panic(c, r.payload, zero)
    ELSE IF r.kind = "err" THEN Return(c, zero, T.call, zero)
    ELSE IF r.kind = "empty" \/ r.word = 0 THEN Return(c, zero, T.invalid, zero)
    ELSE readResult(c, op, r.word, zero, T)

\* from the guest's answer to the decoding (part_000:244-254; session.go:193-200)
afterCall(c, im, op, r, zero, T) ==
    IF r.kind = "panic" THEN Panic(c, r.payload, zero)
    ELSE IF r.kind = "err" THEN Return(c, zero, T.call, zero)
    ELSE IF r.kind = "empty"
         THEN IF im = "bytes" THEN Return(c, zero, T.empty, zero)
              ELSE Panic(c, IndexPanic, zero)
    ELSE IF r.word = 0 THEN Return(c, zero, T.invalid, zero)
    ELSE readResult(c, op, r.word, zero, T)

\* allocate, defer the deallocation, write the input, call (part_000:221-244)
bufferOp(S, im, op, fn, message, extra, zero, T) ==
    LET msgLen == Len(message)
    IN UNION {
         IF a.kind = "panic" THEN Panic(a.c, a.payload, zero)
         ELSE IF a.kind = "err" THEN Return(a.c, zero, T.alloc, zero)
         ELSE LET c1 == Defer(a.c, deallocateSafe(a.ptr, 0, "input"))
                  w == memWrite(c1, Uint32(a.ptr), message, "input")
              IN IF ~w.ok THEN Return(w.c, zero, T.write, zero)
                 ELSE UNION { afterCall(Call(w.c, fn, <<a.ptr, msgLen>> \o extra, r, "call"),
                                        im, op, r, zero, T)
                              : r \in GuestAnswers(fn, MemBytes(w.c.mem, Uint32(a.ptr), msgLen),
                                                   extra) }
         : a \in allocateSafe(NewCtx(S.mem), msgLen, "input") }

FormatTexts ==
    [alloc |-> "failed to allocate memory for message",
     write |-> "failed to write message to memory for formatting",
     call |-> "failed to format message",
     empty |-> "invalid message: empty return",
     invalid |-> "invalid message",
     read |-> "failed to convert message to a field"]

ErrChunks == "target number of chunks must be between 1 and 32"
ErrTooLong == "target formatted message length must be at most %d (%d chunks)"

\* tooLong with >= for >
tooLongOffByOne(message, targetChunks) ==
    Len(message) >= targetChunks * MESSAGE_FORMAT_BLOCK_SIZE

\* part_000:217
tooLong(message, targetChunks) == Len(message) > targetChunks * MESSAGE_FORMAT_BLOCK_SIZE

\* FormatMessage that validates its arguments before it looks at the module
FormatMessageValidatesFirst(S, im, message, targetChunks) ==
    IF targetChunks < 1 \/ targetChunks > MAX_FORMAT_MESSAGE_CHUNKS
    THEN Return(NewCtx(S.mem), <<NilBuf>>, ErrChunks, <<NilBuf>>)
    ELSE IF tooLong(message, targetChunks)
         THEN Return(NewCtx(S.mem), <<NilBuf>>, ErrTooLong, <<NilBuf>>)
    ELSE IF S.closed THEN Closed(S, <<NilBuf>>)
    ELSE bufferOp(S, im, "FormatMessage", "format_message", message, <<targetChunks>>,
                  <<NilBuf>>, FormatTexts)

\* part_000:193-279; session.go:142-225
FormatMessage(S, im, message, targetChunks) ==
    IF S.closed THEN Closed(S, <<NilBuf>>)
    ELSE IF targetChunks < 1 \/ targetChunks > MAX_FORMAT_MESSAGE_CHUNKS
         THEN Return(NewCtx(S.mem), <<NilBuf>>, ErrChunks, <<NilBuf>>)
    ELSE IF tooLong(message, targetChunks)
         THEN Return(NewCtx(S.mem), <<NilBuf>>, ErrTooLong, <<NilBuf>>)
    ELSE bufferOp(S, im, "FormatMessage", "format_message", message, <<targetChunks>>,
                  <<NilBuf>>, FormatTexts)

RecoverMessage(S, im, formattedMessage) ==
    IF S.closed THEN Closed(S, <<NilBuf>>)
    ELSE bufferOp(S, im, "RecoverMessage", "formatted_message_to_bytes", formattedMessage,
                  <<>>, <<NilBuf>>,
                  [FormatTexts EXCEPT !.write = "failed to write message to memory for recovering",
                                      !.call = "failed to recover message"])

HashMessageToString(S, im, message) ==
    IF S.closed THEN Closed(S, <<EmptyStr>>)
    ELSE bufferOp(S, im, "HashMessageToString", "hash_message", message, <<>>, <<EmptyStr>>,
                  [FormatTexts EXCEPT !.write = "failed to write message to memory for hashing",
                                      !.call = "failed to hash message to a string representation"])

HashMessage(S, im, message) ==
    IF S.closed THEN Closed(S, <<NilBuf>>)
    ELSE bufferOp(S, im, "HashMessage", "hash_message_bytes", message, <<>>, <<NilBuf>>,
                  [FormatTexts EXCEPT !.write = "failed to write message to memory for hashing",
                                      !.call = "failed to hash message"])

-----------------------------------------------------------------------------
(* NewPrivateKey *)

\* the error value a failed guest call returned, handed on unchanged
GuestCallErr == "guest call error"

\* decodeLenPtr with the two halves the other way round
decodeLenPtrSwapped(encoded) == <<Uint32(encoded \div HalfBase), Uint32(encoded)>>

\* part_000:90-92
decodeLenPtr(encoded) == <<Uint32(encoded), Uint32(encoded \div HalfBase)>>

\* newKeyAddress that hands the copied key back when get_address fails
newKeyAddressKeepsKey(c, key, r, zero) ==
    IF r.kind = "panic" THEN Panic(c, r.payload, zero)
    ELSE IF r.kind = "err"
         THEN Return(c, <<key, EmptyStr>>, "failed to get address from the generated private key", zero)
    ELSE IF r.kind = "empty"
         THEN Return(c, zero, "internal error when getting address from the generated private key: empty return", zero)
    ELSE LET addrPtr == decodeLenPtr(r.word)[1]
             addrLen == decodeLenPtr(r.word)[2]
         IN IF addrPtr = 0 \/ addrLen = 0
            THEN Return(c, zero, "internal error when getting address from the generated private key", zero)
            ELSE LET c1 == Defer(c, deallocateSafe(addrPtr, 0, "address"))
                     rd == memRead(c1, addrPtr, addrLen, "address")
                 IN IF ~rd.ok
                    THEN Return(rd.c, zero, "failed to convert generated private key to address", zero)
                    ELSE Return(rd.c, <<key, copyOut(rd.view, rd.c.mem)>>, NoErr, zero)

\* byte-key implementation, from the get_address answer on (part_000:152-188)
newKeyAddress(c, key, r, zero) ==
    IF r.kind = "panic" THEN Panic(c, r.payload, zero)
    ELSE IF r.kind = "err"
         THEN Return(c, zero, "failed to get address from the generated private key", zero)
    ELSE IF r.kind = "empty"
         THEN Return(c, zero, "internal error when getting address from the generated private key: empty return", zero)
    ELSE LET addrPtr == decodeLenPtr(r.word)[1]
             addrLen == decodeLenPtr(r.word)[2]
         IN IF addrPtr = 0 \/ addrLen = 0
            THEN Return(c, zero, "internal error when getting address from the generated private key", zero)
            ELSE LET c1 == Defer(c, deallocateSafe(addrPtr, 0, "address"))
                     rd == memRead(c1, addrPtr, addrLen, "address")
                 IN IF ~rd.ok
                    THEN Return(rd.c, zero, "failed to convert generated private key to address", zero)
                    ELSE Return(rd.c, <<key, copyOut(rd.view, rd.c.mem)>>, NoErr, zero)

\* byte-key implementation, from the new_private_key answer on (part_000:118-152)
newKeyRead(c, r, zero) ==
    IF r.kind = "panic" THEN Panic(c, r.payload, zero)
    ELSE IF r.kind = "err" THEN Return(c, zero, GuestCallErr, zero)
    ELSE IF r.kind = "empty"
         THEN Return(c, zero, "failed to create new private key: empty return", zero)
    ELSE LET keyPtr == decodeLenPtr(r.word)[1]
             keyLen == decodeLenPtr(r.word)[2]
         IN IF keyPtr = 0 \/ keyLen = 0
            THEN Return(c, zero, "failed to create new private key: invalid pointer", zero)
            ELSE LET c1 == Defer(c, DeferItem("key", keyPtr, 0, TRUE, keyPtr, keyLen))
                     rd == memRead(c1, keyPtr, keyLen, "key")
                 IN IF ~rd.ok THEN Return(rd.c, zero, "failed to create new private key", zero)
                    ELSE LET c2 == [rd.c EXCEPT !.snap = MemBytes(rd.c.mem, keyPtr, keyLen)]
                             key == copyOut(rd.view, c2.mem)
                         IN UNION { newKeyAddress(Call(c2, "get_address", <<keyPtr, keyLen>>, a, "call"),
                                                  key, a, zero)
                                    : a \in GuestResps("get_address") }

\* part_000:95-189
NewPrivateKey(S) ==
    LET zero == <<NilBuf, EmptyStr>>
    IN IF S.closed THEN Closed(S, zero)
       ELSE UNION { newKeyRead(Call(NewCtx(S.mem), "new_private_key", <<>>, r, "call"), r, zero)
                    : r \in GuestResps("new_private_key") }

\* string-key implementation, from the get_address answer on (session.go:116-137)
newKeyAddressStr(c, key, r, zero) ==
    IF r.kind = "panic" THEN Panic(c, r.payload, zero)
    ELSE IF r.kind = "err"
         THEN Return(c, zero, "failed to get address from the generated private key", zero)
    ELSE IF r.kind = "empty" THEN Panic(c, IndexPanic, zero)
    ELSE IF r.word = 0
         THEN Return(c, zero, "internal error when getting address from the generated private key", zero)
    ELSE LET rd == memRead(c, Uint32(r.word), ADDRESS_SIZE, "address")
         IN IF ~rd.ok
            THEN Return(rd.c, zero, "failed to convert generated private key to address", zero)
            ELSE LET c1 == Defer(rd.c, deallocateCall(r.word, ADDRESS_SIZE, "address"))
                 IN Return(c1, <<key, copyOut(rd.view, c1.mem)>>, NoErr, zero)

\* string-key implementation, from the new_private_key answer on (session.go:94-116)
newKeyReadStr(c, r, zero) ==
    IF r.kind = "panic" THEN Panic(c, r.payload, zero)
    ELSE IF r.kind = "err" THEN Return(c, zero, GuestCallErr, zero)
    ELSE IF r.kind = "empty" THEN Panic(c, IndexPanic, zero)
    ELSE IF r.word = 0 THEN Return(c, zero, "failed to create new private key", zero)
    ELSE LET rd == memRead(c, Uint32(r.word), PRIVATE_KEY_SIZE, "key")
         IN IF ~rd.ok THEN Return(rd.c, zero, "failed to create new private key", zero)
            ELSE LET c1 == Defer(rd.c, deallocateCall(r.word, PRIVATE_KEY_SIZE, "key"))
                     c2 == [c1 EXCEPT !.snap = MemBytes(c1.mem, Uint32(r.word), PRIVATE_KEY_SIZE)]
                     key == copyOut(rd.view, c2.mem)
                 IN UNION { newKeyAddressStr(Call(c2, "get_address", <<r.word, PRIVATE_KEY_SIZE>>, a, "call"),
                                             key, a, zero)
                            : a \in GuestResps("get_address") }

\* session.go:71-138
NewPrivateKeyStr(S) ==
    LET zero == <<EmptyStr, EmptyStr>>
    IN IF S.closed THEN Closed(S, zero)
       ELSE UNION { newKeyReadStr(Call(NewCtx(S.mem), "new_private_key", <<>>, r, "call"), r, zero)
                    : r \in GuestResps("new_private_key") }

-----------------------------------------------------------------------------
(* Sign *)

\* byte-key implementation, from the sign answer on (part_000:582-618)
signResult(c, privateKeyPtr, r, zero) ==
    IF r.kind = "panic" THEN Panic(c, r.payload, zero)
    ELSE IF r.kind = "err" THEN Return(c, zero, "failed to sign message", zero)
    ELSE IF r.kind = "empty"
         THEN Return(c, zero, "internal error when signing message: empty return", zero)
    ELSE LET sigPtr == decodeLenPtr(r.word)[1]
             sigLen == decodeLenPtr(r.word)[2]
         IN IF sigPtr = 0 \/ sigLen = 0
            THEN Return(c, zero, "internal error when signing message", zero)
            ELSE LET rd == memRead(c, sigPtr, sigLen, "result")
                 IN IF ~rd.ok THEN Return(rd.c, zero, "failed to sign message", zero)
                    ELSE LET c1 == Defer(rd.c, deallocateSafe(sigPtr, 0, "result"))
                             wipe == memWrite(c1, Uint32(privateKeyPtr),
                                              Rep(0, PRIVATE_KEY_SIZE), "zero")
                             sig == copyOut(rd.view, wipe.c.mem)
                         IN Return(wipe.c, <<sig>>, NoErr, zero)

\* string-key implementation, from the sign answer on (session.go:517-538)
signResultStr(c, privateKeyPtr, r, zero) ==
    IF r.kind = "panic" THEN Panic(c, r.payload, zero)
    ELSE IF r.kind = "err" THEN Return(c, zero, "failed to sign message", zero)
    ELSE IF r.kind = "empty" THEN Panic(c, IndexPanic, zero)
    ELSE IF r.word = 0 THEN Return(c, zero, "internal error when signing message", zero)
    ELSE LET rd == memRead(c, Uint32(r.word), SIGNATURE_SIZE, "result")
         IN IF ~rd.ok THEN Return(rd.c, zero, "failed to sign message", zero)
            ELSE LET c1 == Defer(rd.c, deallocateCall(r.word, SIGNATURE_SIZE, "result"))
                 IN Return(c1, <<copyOut(rd.view, c1.mem)>>, NoErr, zero)

\* the key buffer: allocate, defer, write, call sign (part_000:562-582)
signKey(c, im, key, messagePtr, msgLen, zero) ==
    UNION {
      IF k.kind = "panic" THEN Panic(k.c, k.payload, zero)
      ELSE IF k.kind = "err"
           THEN Return(k.c, zero, "failed to allocate memory for private key", zero)
      ELSE LET c1 == Defer(k.c, deallocateSafe(k.ptr, 0, "key"))
               w == memWrite(c1, Uint32(k.ptr), key, "key")
           IN IF ~w.ok
              THEN Return(w.c, zero, "failed to write private key to memory for signing", zero)
              ELSE UNION { LET c2 == Call(w.c, "sign",
                                          <<k.ptr, PRIVATE_KEY_SIZE, messagePtr, msgLen>>, r, "call")
                           IN IF im = "bytes" THEN signResult(c2, k.ptr, r, zero)
                              ELSE signResultStr(c2, k.ptr, r, zero)
                           : r \in GuestResps("sign") }
      : k \in allocateSafe(c, PRIVATE_KEY_SIZE, "key") }

\* validKeySize that only rejects keys that are too long
validKeySizeAtMost(key) == Len(key) <= PRIVATE_KEY_SIZE

\* part_000:538
validKeySize(key) == Len(key) = PRIVATE_KEY_SIZE

\* part_000:518-562; session.go:455-498
Sign(S, im, key, message) ==
    LET zero == <<EmptyStr>>
        msgLen == Len(message)
    IN IF S.closed THEN Closed(S, zero)
       ELSE IF ~validKeySize(key)
            THEN Return(NewCtx(S.mem), zero, "invalid private key size", zero)
       ELSE UNION {
              IF a.kind = "panic" THEN Panic(a.c, a.payload, zero)
              ELSE IF a.kind = "err"
                   THEN Return(a.c, zero, "failed to allocate memory for message", zero)
              ELSE LET c1 == Defer(a.c, deallocateSafe(a.ptr, 0, "input"))
                       w == memWrite(c1, Uint32(a.ptr), message, "input")
                   IN IF ~w.ok
                      THEN Return(w.c, zero, "failed to write formatted message to memory for signing", zero)
                      ELSE signKey(w.c, im, key, a.ptr, msgLen, zero)
              : a \in allocateSafe(NewCtx(S.mem), msgLen, "input") }

-----------------------------------------------------------------------------
(* The wrapper (src/wrapper.go) *)

RequiredExports ==
    { "new_private_key", "get_address", "sign", "alloc", "dealloc", "hash_message",
      "hash_message_bytes", "format_message", "formatted_message_to_bytes" }

\* export sets a guest module may lack
MissingChoices == { {}, {"sign"}, {"alloc", "dealloc"} }

\* the required exports a guest module may come with
ExportChoices == { RequiredExports \ m : m \in MissingChoices }

\* missingExports that stops at the first name it finds missing
missingExportsFirst(exported) ==
    LET all == { name \in RequiredExports : name \notin exported }
    IN IF all = {} THEN {} ELSE { CHOOSE name \in all : TRUE }

\* the names NewSession collects: every required export the module lacks
\* (wrapper.go:137-142)
missingExports(exported) == { name \in RequiredExports : name \notin exported }

\* closeCalled remembers that Close was called; the code keeps no such field.
\* closing is the place a running Close has reached and opening the place each
\* caller's running NewSession has reached ("no": no call is running)
NoWrapper ==
    [exists |-> FALSE, runtimeActive |-> FALSE, runtimeNil |-> TRUE, runtimeClosed |-> FALSE,
     closeCalled |-> FALSE, closing |-> "no", opening |-> [c \in TwoSessions |-> "no"]]

\* the deferred runtime.Close of NewWrapper: it looks at err as it stands when
\* the deferred call runs (wrapper.go:78-82)
closeOnError(err, runtimeNil) == err # NoErr /\ ~runtimeNil

\* NewWrapper (wrapper.go:56-109): step names the setup step that fails, how
\* says whether it returned an error or panicked, payload is what it panicked
\* with. closeFn is the cleanup function returned: nil, the wrapper's Close, or
\* the function that does nothing
NewWrapper(step, how, payload) ==
    LET created == step # "runtime"
        \* err when the deferred close runs: a panic has not been converted yet
        errAtClose == IF step = "none" \/ how = "panic" THEN NoErr
                      ELSE IF step = "host" THEN "failed to instantiate host module"
                      ELSE "compile error"
        err == IF step = "none" THEN NoErr
               ELSE IF how = "panic" THEN recoverErr(payload)
               ELSE errAtClose
    IN [err |-> err,
        pan |-> step # "none" /\ how = "panic",
        closeFn |-> IF step = "none" THEN "wrapper.Close"
                    ELSE IF how = "panic" THEN "noop" ELSE "nil",
        wrapperNil |-> err # NoErr,
        rtCreated |-> created,
        rtClosed |-> created /\ closeOnError(errAtClose, ~created)]

\* the setup steps that can fail, and how: NewRuntimeWithConfig and
\* MustInstantiate only panic, Instantiate and CompileModule return an error or panic
SetupFailures ==
    { <<"none", "ok">>, <<"runtime", "panic">>, <<"wasi", "panic">>,
      <<"host", "err">>, <<"host", "panic">>, <<"compile", "err">>, <<"compile", "panic">> }

-----------------------------------------------------------------------------
(* Inputs of the callers *)

ShortMessages == { <<72, NL, 105>> }
Messages == ShortMessages \cup { <<>>, Rep(0, MESSAGE_FORMAT_BLOCK_SIZE),
                                 Rep(0, MESSAGE_FORMAT_BLOCK_SIZE + 1) }
\* (message, targetChunks) pairs on both sides of every bound FormatMessage checks
FormatInputs ==
    { <<m, 1>> : m \in Messages } \cup
    { <<Rep(0, MESSAGE_FORMAT_BLOCK_SIZE + 1), MAX_FORMAT_MESSAGE_CHUNKS>> } \cup
    { <<m, n>> : m \in ShortMessages, n \in {0 - 1, 0, MAX_FORMAT_MESSAGE_CHUNKS + 1} }
\* messages with a line break, with the largest byte, with a brace
RoundTripMessages == { <<NL>>, <<255, 0, NL, 125>> }
Keys == { Rep(75, PRIVATE_KEY_SIZE), Rep(75, PRIVATE_KEY_SIZE - 1), Rep(75, PRIVATE_KEY_SIZE + 1) }

-----------------------------------------------------------------------------
(* State machine *)

\* closeCalled remembers that Close was called on the session; allocCalls and
\* deallocCalls count the calls FormatMessage, HashMessage and Sign made to the
\* guest's alloc and dealloc, regions the guest regions they came to hold
\* a call in progress on a session: the operation, its arguments, and the
\* session's module state and guest memory as the call found them
\* what a call returns when nothing has run
NoOutcome ==
    [mem |-> EmptyMem, trace |-> <<>>, snap |-> <<>>, ndefer |-> 0, vals |-> <<>>,
     err |-> NoErr, pan |-> FALSE, payload |-> NoPanic, escaped |-> FALSE]

\* outcome is what the call is going to return, where the model fixes it at
\* the entry of the call
NoPending ==
    [op |-> "none", msg |-> <<>>, chunks |-> 0, key |-> <<>>, closed0 |-> FALSE,
     mem0 |-> EmptyMem, outcome |-> NoOutcome]

NoSession ==
    [exists |-> FALSE, closed |-> FALSE, closeCalled |-> FALSE, mem |-> EmptyMem,
     allocCalls |-> 0, deallocCalls |-> 0, regions |-> 0, pending |-> NoPending]

NoCall ==
    [op |-> "none", sid |-> 0, msg |-> <<>>, chunks |-> 0, key |-> <<>>,
     wasClosed |-> FALSE, afterClose |-> FALSE, trace |-> <<>>, vals |-> <<>>,
     err |-> NoErr, pan |-> FALSE, payload |-> NoPanic, escaped |-> FALSE, snap |-> <<>>,
     ndefer |-> 0, closeFn |-> "nil",
     missing |-> {}, exported |-> {}, inst |-> FALSE, instClosed |-> FALSE,
     rtCreated |-> FALSE, rtClosed |-> FALSE]

\* key is the key the caller last got from NewPrivateKey, formatted the buffer
\* it last got from FormatMessage and source the message it had passed
NoHeld ==
    [has |-> FALSE, sid |-> 0, op |-> "none", val |-> NilBuf, expect |-> <<>>, key |-> <<>>,
     formatted |-> <<>>, source |-> <<>>]

\* no call is being looked at: the caller is about to make the next one
Idle == last.op = "none"

Start ==
    /\ impl \in {"bytes", "string"}
    /\ wrapper = NoWrapper
    /\ sess = [s \in Sessions |-> NoSession]
    /\ last = NoCall
    /\ held = NoHeld
    /\ nops = 0

Init == Start /\ guest = "any"

DoNewWrapper ==
    /\ Idle
    /\ ~wrapper.exists
    /\ \E f \in SetupFailures,
          payload \in {NoPanic, PanicString, PanicError, PanicOther} :
         LET o == NewWrapper(f[1], f[2], payload)
         IN /\ (payload # NoPanic) = (f[2] = "panic")
            /\ wrapper' = IF o.wrapperNil THEN NoWrapper
                          ELSE [exists |-> TRUE, runtimeActive |-> TRUE,
                                runtimeNil |-> FALSE, runtimeClosed |-> FALSE,
                                closeCalled |-> FALSE, closing |-> "no",
                                opening |-> [c \in TwoSessions |-> "no"]]
            /\ last' = [NoCall EXCEPT !.op = "NewWrapper", !.err = o.err,
                                      !.pan = o.pan,
                                      !.payload = IF o.pan THEN payload ELSE NoPanic,
                                      !.closeFn = o.closeFn,
                                      !.rtCreated = o.rtCreated, !.rtClosed = o.rtClosed]
    /\ UNCHANGED <<impl, guest, sess, held, nops>>

\* closeWrapper that closes the runtime and leaves runtimeActive set
closeWrapperStaysActive(w) ==
    [w EXCEPT !.runtimeClosed = IF w.runtimeNil THEN @ ELSE TRUE]

\* closeWrapper that marks the wrapper inactive and leaves the runtime open
closeWrapperKeepsRuntime(w) == [w EXCEPT !.runtimeActive = FALSE]

\* closeWrapper that flips runtimeActive
closeWrapperToggles(w) ==
    [w EXCEPT !.runtimeClosed = IF w.runtimeNil THEN @ ELSE TRUE,
              !.runtimeActive = ~@]

\* aleoWrapper.Close (wrapper.go:167-172)
closeWrapper(w) ==
    [w EXCEPT !.runtimeClosed = IF w.runtimeNil THEN @ ELSE TRUE,
              !.runtimeActive = FALSE]

\* the caller closes the wrapper; closing the runtime closes every module
\* instantiated in it
WrapperClose ==
    /\ Idle
    /\ wrapper.exists
    /\ LET w == closeWrapper(wrapper)
       IN /\ wrapper' = [w EXCEPT !.closeCalled = TRUE]
          /\ sess' = IF w.runtimeClosed
                     THEN [s \in DOMAIN sess |->
                             IF sess[s].exists THEN [sess[s] EXCEPT !.closed = TRUE]
                             ELSE sess[s]]
                     ELSE sess
    /\ last' = [NoCall EXCEPT !.op = "Wrapper.Close", !.afterClose = wrapper.closeCalled]
    /\ UNCHANGED <<impl, guest, held, nops>>

\* aleoWrapper.NewSession on a wrapper that was closed (wrapper.go:113-117)
NewSessionClosed ==
    /\ Idle
    /\ wrapper.exists
    /\ ~wrapper.runtimeActive \/ wrapper.runtimeNil
    /\ wrapper' = [wrapper EXCEPT !.runtimeNil = TRUE]
    /\ last' = [NoCall EXCEPT !.op = "NewSession", !.err = ErrNoRuntime,
                              !.afterClose = wrapper.closeCalled]
    /\ UNCHANGED <<impl, guest, sess, held, nops>>

\* aleoWrapper.NewSession on a live wrapper (wrapper.go:119-164)
NewSessionLive ==
    /\ Idle
    /\ wrapper.exists
    /\ ~(~wrapper.runtimeActive \/ wrapper.runtimeNil)
    /\ \E s \in DOMAIN sess, instErr \in BOOLEAN, exported \in ExportChoices :
        LET missing == missingExports(exported) IN
         /\ wrapper.runtimeClosed => instErr
         /\ ~sess[s].exists
         /\ \A t \in DOMAIN sess : t < s => sess[t].exists
         /\ IF instErr
            THEN /\ last' = [NoCall EXCEPT !.op = "NewSession",
                                           !.err = "failed to instantiate wrapper session",
                                           !.afterClose = wrapper.closeCalled]
                 /\ sess' = sess
            ELSE IF missing # {}
            THEN /\ last' = [NoCall EXCEPT !.op = "NewSession",
                                           !.err = "missing required wasm exports",
                                           !.missing = missing, !.exported = exported,
                                           !.inst = TRUE, !.instClosed = TRUE,
                                           !.afterClose = wrapper.closeCalled]
                 /\ sess' = sess
            ELSE /\ last' = [NoCall EXCEPT !.op = "NewSession", !.sid = s, !.inst = TRUE,
                                           !.exported = exported,
                                           !.afterClose = wrapper.closeCalled]
                 /\ sess' = [sess EXCEPT ![s] = [NoSession EXCEPT !.exists = TRUE]]
    /\ UNCHANGED <<impl, guest, wrapper, held, nops>>

\* Close that leaves the module open
CloseLeavesOpen(S) == S

\* Close that flips the module between open and closed
CloseToggles(S) == [S EXCEPT !.closed = ~@]

\* aleoWrapperSession.Close (part_000:67-71; session.go:47-51)
Close(S) == [S EXCEPT !.closed = TRUE]

\* the session's caller calls Close; it has no other call running on it
SessionClose ==
    /\ Idle
    /\ \E s \in DOMAIN sess :
         /\ sess[s].exists
         /\ sess[s].pending = NoPending
         /\ sess' = [sess EXCEPT ![s] = [Close(sess[s]) EXCEPT !.closeCalled = TRUE]]
         /\ last' = [NoCall EXCEPT !.op = "Close", !.sid = s, !.wasClosed = sess[s].closed,
                                   !.afterClose = sess[s].closeCalled]
    /\ UNCHANGED <<impl, guest, wrapper, held, nops>>

\* the caller keeps the buffer a successful call returned
holdResult(s, op, msg, o) ==
    IF o.err = NoErr /\ op \in {"NewPrivateKey", "FormatMessage", "RecoverMessage", "HashMessage"}
    THEN [has |-> TRUE, sid |-> s, op |-> op, val |-> o.vals[1],
          expect |-> IF op = "FormatMessage" THEN StripNewlines(o.snap) ELSE o.snap,
          key |-> IF op = "NewPrivateKey" THEN Deref(o.vals[1], o.mem) ELSE held.key,
          formatted |-> IF op = "FormatMessage" THEN Deref(o.vals[1], o.mem)
                        ELSE held.formatted,
          source |-> IF op = "FormatMessage" THEN msg ELSE held.source]
    ELSE held

\* the operations of the format, hash, sign cycle (example_test.go:67-90)
CycleOps == { "FormatMessage", "HashMessage", "Sign" }

\* how many calls of the trace are calls of the guest function fn
Count(trace, fn) == Cardinality({ i \in DOMAIN trace : trace[i].fn = fn })

\* a guest region came into the host's hands: allocateSafe returned its pointer,
\* or the host read the result the guest left in it
HoldsRegion(e) ==
    \/ e.fn = "alloc" /\ e.res = "ok"
    \/ e.fn = "mem.Read" /\ e.site = "result" /\ e.res = "ok"

\* the session's counts after an operation that made the calls of trace
account(S, op, trace) ==
    IF op \notin CycleOps THEN S
    ELSE [S EXCEPT !.allocCalls = @ + Count(trace, "alloc"),
                   !.deallocCalls = @ + Count(trace, "dealloc"),
                   !.regions = @ + Cardinality({ i \in DOMAIN trace : HoldsRegion(trace[i]) })]

\* Commit of an operation that closes the module on its way out
CommitClosingModule(s, op, msg, chunks, key, o) ==
    /\ sess' = [sess EXCEPT ![s] = account([@ EXCEPT !.mem = o.mem, !.closed = TRUE,
                                                      !.pending = NoPending],
                                            op, o.trace)]
    /\ last' = [NoCall EXCEPT !.op = op, !.sid = s, !.msg = msg, !.chunks = chunks,
                              !.key = key, !.wasClosed = sess[s].closed,
                              !.afterClose = sess[s].closeCalled,
                              !.trace = o.trace, !.vals = o.vals, !.err = o.err,
                              !.pan = o.pan, !.payload = o.payload, !.escaped = o.escaped,
                              !.snap = o.snap,
                              !.ndefer = o.ndefer]
    /\ held' = holdResult(s, op, msg, o)
    /\ nops' = nops + 1
    /\ UNCHANGED <<impl, guest, wrapper>>

\* Commit for sessions that all run in one module instance: the guest memory
\* the operation leaves is the memory of every session
CommitSharedModule(s, op, msg, chunks, key, o) ==
    /\ sess' = [t \in DOMAIN sess |->
                  IF t = s THEN account([sess[t] EXCEPT !.mem = o.mem, !.pending = NoPending],
                                        op, o.trace)
                  ELSE IF sess[t].exists THEN [sess[t] EXCEPT !.mem = o.mem]
                  ELSE sess[t]]
    /\ last' = [NoCall EXCEPT !.op = op, !.sid = s, !.msg = msg, !.chunks = chunks,
                              !.key = key, !.wasClosed = sess[s].closed,
                              !.afterClose = sess[s].closeCalled,
                              !.trace = o.trace, !.vals = o.vals, !.err = o.err,
                              !.pan = o.pan, !.payload = o.payload, !.escaped = o.escaped,
                              !.snap = o.snap,
                              !.ndefer = o.ndefer]
    /\ held' = holdResult(s, op, msg, o)
    /\ nops' = nops + 1
    /\ UNCHANGED <<impl, guest, wrapper>>

\* a session operation returned outcome o
Commit(s, op, msg, chunks, key, o) ==
    /\ sess' = [sess EXCEPT ![s] = account([@ EXCEPT !.mem = o.mem, !.pending = NoPending],
                                            op, o.trace)]
    /\ last' = [NoCall EXCEPT !.op = op, !.sid = s, !.msg = msg, !.chunks = chunks,
                              !.key = key, !.wasClosed = sess[s].closed,
                              !.afterClose = sess[s].closeCalled,
                              !.trace = o.trace, !.vals = o.vals, !.err = o.err,
                              !.pan = o.pan, !.payload = o.payload, !.escaped = o.escaped,
                              !.snap = o.snap,
                              !.ndefer = o.ndefer]
    /\ held' = holdResult(s, op, msg, o)
    /\ nops' = nops + 1
    /\ UNCHANGED <<impl, guest, wrapper>>

DoNewPrivateKey ==
    /\ Idle
    /\ nops < MaxOps
    /\ \E s \in DOMAIN sess :
         /\ sess[s].exists
         /\ \E o \in (IF impl = "bytes" THEN NewPrivateKey(sess[s]) ELSE NewPrivateKeyStr(sess[s])) :
              Commit(s, "NewPrivateKey", <<>>, 0, <<>>, o)

DoFormatMessage ==
    /\ Idle
    /\ nops < MaxOps
    /\ \E s \in DOMAIN sess, in \in FormatInputs :
         /\ sess[s].exists
         /\ \E o \in FormatMessage(sess[s], impl, in[1], in[2]) :
              Commit(s, "FormatMessage", in[1], in[2], <<>>, o)

DoRecoverMessage ==
    /\ Idle
    /\ nops < MaxOps
    /\ \E s \in DOMAIN sess, m \in ShortMessages :
         /\ sess[s].exists
         /\ \E o \in RecoverMessage(sess[s], impl, m) : Commit(s, "RecoverMessage", m, 0, <<>>, o)

DoHashMessageToString ==
    /\ Idle
    /\ nops < MaxOps
    /\ \E s \in DOMAIN sess, m \in ShortMessages :
         /\ sess[s].exists
         /\ \E o \in HashMessageToString(sess[s], impl, m) :
              Commit(s, "HashMessageToString", m, 0, <<>>, o)

DoHashMessage ==
    /\ Idle
    /\ nops < MaxOps
    /\ \E s \in DOMAIN sess, m \in ShortMessages :
         /\ sess[s].exists
         /\ \E o \in HashMessage(sess[s], impl, m) : Commit(s, "HashMessage", m, 0, <<>>, o)

DoSign ==
    /\ Idle
    /\ nops < MaxOps
    /\ \E s \in DOMAIN sess, k \in Keys, m \in ShortMessages :
         /\ sess[s].exists
         /\ \E o \in Sign(sess[s], impl, k, m) : Commit(s, "Sign", m, 0, k, o)

\* the caller has looked at what the call returned and goes on
CallerContinues ==
    /\ ~Idle
    /\ last' = NoCall
    /\ UNCHANGED <<impl, guest, wrapper, sess, held, nops>>

Next ==
    \/ CallerContinues
    \/ DoNewWrapper
    \/ WrapperClose
    \/ NewSessionClosed
    \/ NewSessionLive
    \/ SessionClose
    \/ DoNewPrivateKey
    \/ DoFormatMessage
    \/ DoRecoverMessage
    \/ DoHashMessageToString
    \/ DoHashMessage
    \/ DoSign

Spec == Init /\ [][Next]_vars

-----------------------------------------------------------------------------
(* The same program with a working guest: every entry point returns, the   *)
(* regions it hands out lie in guest memory, results have the sizes the    *)
(* guest's functions produce. The caller runs NewPrivateKey and the format, *)
(* hash, sign cycle of example_test.go:31-90 with valid arguments.         *)

SessionOps ==
    { "NewPrivateKey", "FormatMessage", "RecoverMessage", "HashMessageToString",
      "HashMessage", "Sign" }

\* guest entry points that answer with a packed result word
ResultFns ==
    { "new_private_key", "get_address", "sign", "format_message",
      "formatted_message_to_bytes", "hash_message", "hash_message_bytes" }

\* arguments FormatMessage accepts
ValidFormatInputs ==
    { in \in FormatInputs \cup { <<m, 2>> : m \in RoundTripMessages } :
         in[2] >= 1 /\ in[2] <= MAX_FORMAT_MESSAGE_CHUNKS /\ ~tooLong(in[1], in[2]) }

\* the arguments of the cycle: a short message in one chunk
CycleFormatInputs == { <<m, 1>> : m \in ShortMessages }

CycleNewPrivateKey ==
    /\ Idle
    /\ nops < MaxCycleOps
    /\ \E s \in DOMAIN sess :
         /\ sess[s].exists
         /\ \E o \in (IF impl = "bytes" THEN NewPrivateKey(sess[s]) ELSE NewPrivateKeyStr(sess[s])) :
              Commit(s, "NewPrivateKey", <<>>, 0, <<>>, o)

CycleFormatMessage ==
    /\ Idle
    /\ nops < MaxCycleOps
    /\ \E s \in DOMAIN sess, in \in CycleFormatInputs :
         /\ sess[s].exists
         /\ \E o \in FormatMessage(sess[s], impl, in[1], in[2]) :
              Commit(s, "FormatMessage", in[1], in[2], <<>>, o)

CycleHashMessage ==
    /\ Idle
    /\ nops < MaxCycleOps
    /\ \E s \in DOMAIN sess, m \in ShortMessages :
         /\ sess[s].exists
         /\ \E o \in HashMessage(sess[s], impl, m) :
              Commit(s, "HashMessage", m, 0, <<>>, o)

\* Sign with the key NewPrivateKey returned
CycleSign ==
    /\ Idle
    /\ nops < MaxCycleOps
    /\ held.key # <<>>
    /\ \E s \in DOMAIN sess, m \in ShortMessages :
         /\ sess[s].exists
         /\ \E o \in Sign(sess[s], impl, held.key, m) :
              Commit(s, "Sign", m, 0, held.key, o)

NextWorkingGuest ==
    \/ CallerContinues
    \/ DoNewWrapper
    \/ WrapperClose
    \/ NewSessionClosed
    \/ NewSessionLive
    \/ SessionClose
    \/ CycleNewPrivateKey
    \/ CycleFormatMessage
    \/ CycleHashMessage
    \/ CycleSign

InitWorkingGuest == Start /\ guest = "working"

SpecWorkingGuest == InitWorkingGuest /\ [][NextWorkingGuest]_vars

-----------------------------------------------------------------------------
(* The round trip with the working guest: the caller formats a message and *)
(* hands the buffer it got to RecoverMessage.                              *)

RoundTripFormat ==
    /\ Idle
    /\ nops < MaxRoundTripOps
    /\ \E s \in DOMAIN sess, in \in ValidFormatInputs :
         /\ sess[s].exists
         /\ \E o \in FormatMessage(sess[s], impl, in[1], in[2]) :
              Commit(s, "FormatMessage", in[1], in[2], <<>>, o)

\* RecoverMessage on the buffer FormatMessage returned
RoundTripRecover ==
    /\ Idle
    /\ nops < MaxRoundTripOps
    /\ held.formatted # <<>>
    /\ \E s \in DOMAIN sess :
         /\ sess[s].exists
         /\ \E o \in RecoverMessage(sess[s], impl, held.formatted) :
              Commit(s, "RecoverMessage", held.formatted, 0, <<>>, o)

NextRoundTrip ==
    \/ CallerContinues
    \/ DoNewWrapper
    \/ NewSessionLive
    \/ SessionClose
    \/ RoundTripFormat
    \/ RoundTripRecover

SpecRoundTrip == InitWorkingGuest /\ [][NextRoundTrip]_vars

-----------------------------------------------------------------------------
(* Two sessions of one wrapper, each with its own caller. A call takes two *)
(* steps, its entry and its return, and the other caller's steps fall in   *)
(* between.                                                                *)

TwoOps == { "FormatMessage", "HashMessage", "Sign" }

\* the outcomes of the operation op on session S
RunOp(S, op, msg, chunks, key) ==
    CASE op = "FormatMessage" -> FormatMessage(S, impl, msg, chunks)
      [] op = "RecoverMessage" -> RecoverMessage(S, impl, msg)
      [] op = "HashMessageToString" -> HashMessageToString(S, impl, msg)
      [] op = "HashMessage" -> HashMessage(S, impl, msg)
      [] op = "Sign" -> Sign(S, impl, key, msg)
      [] op = "NewPrivateKey" ->
           IF impl = "bytes" THEN NewPrivateKey(S) ELSE NewPrivateKeyStr(S)

Running == { s \in DOMAIN sess : sess[s].pending # NoPending }

\* a caller enters an operation on its session
BeginOp ==
    /\ Idle
    /\ nops + Cardinality(Running) < MaxTwoOps
    /\ \E s \in DOMAIN sess, op \in TwoOps, m \in ShortMessages :
         /\ sess[s].exists
         /\ sess[s].pending = NoPending
         /\ sess' = [sess EXCEPT ![s].pending =
                        [op |-> op, msg |-> m, chunks |-> IF op = "FormatMessage" THEN 1 ELSE 0,
                         key |-> IF op = "Sign" THEN Rep(75, PRIVATE_KEY_SIZE) ELSE <<>>,
                         closed0 |-> sess[s].closed, mem0 |-> sess[s].mem,
                         outcome |-> NoOutcome]]
    /\ UNCHANGED <<impl, guest, wrapper, last, held, nops>>

\* the operation runs on the session's own module and returns
EndOp ==
    /\ Idle
    /\ \E s \in Running :
         LET p == sess[s].pending
         IN \E o \in RunOp(sess[s], p.op, p.msg, p.chunks, p.key) :
              Commit(s, p.op, p.msg, p.chunks, p.key, o)

NextTwoSessions ==
    \/ CallerContinues
    \/ DoNewWrapper
    \/ NewSessionLive
    \/ SessionClose
    \/ BeginOp
    \/ EndOp

InitTwoSessions ==
    /\ impl \in {"bytes", "string"}
    /\ guest = "any"
    /\ wrapper = NoWrapper
    /\ sess = [s \in TwoSessions |-> NoSession]
    /\ last = NoCall
    /\ held = NoHeld
    /\ nops = 0

SpecTwoSessions == InitTwoSessions /\ [][NextTwoSessions]_vars

\* One caller, with the entry and the return of a call as separate steps. The
\* operation runs in the caller's goroutine and every guest call it makes is
\* answered, so an operation that can return does return.
\* the caller enters an operation. The session is the caller's alone until the
\* operation returns, so what the operation is going to do is determined here:
\* the model picks the guest's answers, and with them the outcome, at the entry
BeginCall ==
    /\ Idle
    /\ nops + Cardinality(Running) < MaxReturnOps
    /\ \E s \in DOMAIN sess, op \in SessionOps, m \in ShortMessages :
         /\ sess[s].exists
         /\ sess[s].pending = NoPending
         /\ LET chunks == IF op = "FormatMessage" THEN 1 ELSE 0
                key == IF op = "Sign" THEN Rep(75, PRIVATE_KEY_SIZE) ELSE <<>>
                msg == IF op = "NewPrivateKey" THEN <<>> ELSE m
            IN \E o \in RunOp(sess[s], op, msg, chunks, key) :
                 sess' = [sess EXCEPT ![s].pending =
                            [op |-> op, msg |-> msg, chunks |-> chunks, key |-> key,
                             closed0 |-> sess[s].closed, mem0 |-> sess[s].mem,
                             outcome |-> o]]
    /\ UNCHANGED <<impl, guest, wrapper, last, held, nops>>

\* the operation has made its guest calls and run its deferred cleanups, and
\* returns to the caller
ReturnCall ==
    /\ Idle
    /\ \E s \in Running :
         LET p == sess[s].pending
         IN Commit(s, p.op, p.msg, p.chunks, p.key, p.outcome)

NextReturns ==
    \/ CallerContinues
    \/ DoNewWrapper
    \/ NewSessionLive
    \/ SessionClose
    \/ BeginCall
    \/ ReturnCall

SpecReturns == Init /\ [][NextReturns]_vars /\ WF_vars(ReturnCall)

-----------------------------------------------------------------------------
(* NewSession and Close called on one wrapper from different goroutines *)

\* aleoWrapper has no lock and no atomic field: the statements of a running
\* NewSession and of a running Close interleave, and a read of runtimeActive
\* that is not ordered after Close's write of it sees the old or the new value
SeenActive(w) == IF w.closing = "inactive" THEN BOOLEAN ELSE { w.runtimeActive }

\* calls that have been entered and have not returned
Entered ==
    Cardinality({ c \in TwoSessions : wrapper.opening[c] # "no" })
      + (IF wrapper.closing = "no" THEN 0 ELSE 1)

\* wrapper.go:114-117: the guard of NewSession, and its return of ErrNoRuntime
NewSessionCheck ==
    /\ wrapper.exists
    /\ nops + Entered < MaxCloseOps
    /\ \E c \in TwoSessions, active \in SeenActive(wrapper) :
         /\ wrapper.opening[c] = "no"
         /\ ~sess[c].exists
         /\ IF ~active \/ wrapper.runtimeNil
            THEN /\ Idle
                 /\ wrapper' = [wrapper EXCEPT !.runtimeNil = TRUE]
                 /\ last' = [NoCall EXCEPT !.op = "NewSession", !.err = ErrNoRuntime,
                                           !.afterClose = wrapper.closeCalled]
                 /\ nops' = nops + 1
            ELSE /\ wrapper' = [wrapper EXCEPT !.opening[c] = "checked"]
                 /\ UNCHANGED <<last, nops>>
    /\ UNCHANGED <<impl, guest, sess, held>>

\* wrapper.go:119-161: s.runtime.InstantiateModule, which panics on a runtime
\* field that was set to nil meanwhile and fails in a runtime that was closed
\* meanwhile, and the check of the exports
NewSessionInstantiate ==
    /\ \E c \in TwoSessions, instErr \in BOOLEAN, exported \in ExportChoices :
         /\ wrapper.opening[c] = "checked"
         /\ wrapper.runtimeClosed => instErr
         /\ LET to == IF wrapper.runtimeNil THEN "panicked"
                      ELSE IF wrapper.runtimeClosed THEN "failedClosed"
                      ELSE IF instErr THEN "failed"
                      ELSE IF missingExports(exported) # {} THEN "missing"
                      ELSE "ready"
            IN /\ wrapper' = [wrapper EXCEPT !.opening[c] = to]
               /\ sess' = IF to = "ready"
                          THEN [sess EXCEPT ![c] = [NoSession EXCEPT !.exists = TRUE]]
                          ELSE sess
    /\ UNCHANGED <<impl, guest, last, held, nops>>

\* wrapper.go:121, 146, 163: NewSession returns to its caller; the panic of a
\* nil runtime is not recovered and unwinds into the caller. instClosed tells
\* whether the module instance is closed at this moment
NewSessionReturn ==
    /\ Idle
    /\ \E c \in TwoSessions :
         LET at == wrapper.opening[c]
         IN /\ at \notin {"no", "checked"}
            /\ wrapper' = [wrapper EXCEPT !.opening[c] = "no"]
            /\ last' = [NoCall EXCEPT
                          !.op = "NewSession",
                          !.sid = IF at = "ready" THEN c ELSE 0,
                          !.inst = at \in {"ready", "missing"},
                          !.instClosed = at = "missing" \/ (at = "ready" /\ sess[c].closed),
                          !.err = CASE at = "ready" -> NoErr
                                    [] at = "missing" -> "missing required wasm exports"
                                    [] at = "panicked" -> PanicError.text
                                    [] OTHER -> "failed to instantiate wrapper session",
                          !.pan = at = "panicked",
                          !.escaped = at = "panicked",
                          !.rtClosed = at = "failedClosed",
                          !.afterClose = wrapper.closeCalled]
    /\ nops' = nops + 1
    /\ UNCHANGED <<impl, guest, sess, held>>

\* wrapper.go:168-170: Close closes the runtime, and with it every module that
\* was instantiated in it
CloseRuntime ==
    /\ wrapper.exists
    /\ wrapper.closing = "no"
    /\ nops + Entered < MaxCloseOps
    /\ wrapper' = [wrapper EXCEPT !.runtimeClosed = IF wrapper.runtimeNil THEN @ ELSE TRUE,
                                  !.closing = "runtimeClosed"]
    /\ sess' = IF wrapper.runtimeNil THEN sess
               ELSE [s \in DOMAIN sess |->
                       IF sess[s].exists THEN [sess[s] EXCEPT !.closed = TRUE] ELSE sess[s]]
    /\ UNCHANGED <<impl, guest, last, held, nops>>

\* wrapper.go:171
CloseDeactivate ==
    /\ wrapper.closing = "runtimeClosed"
    /\ wrapper' = [wrapper EXCEPT !.runtimeActive = FALSE, !.closing = "inactive"]
    /\ UNCHANGED <<impl, guest, sess, last, held, nops>>

\* wrapper.go:172: Close returns to its caller
CloseReturn ==
    /\ Idle
    /\ wrapper.closing = "inactive"
    /\ wrapper' = [wrapper EXCEPT !.closing = "no", !.closeCalled = TRUE]
    /\ last' = [NoCall EXCEPT !.op = "Wrapper.Close", !.afterClose = wrapper.closeCalled]
    /\ nops' = nops + 1
    /\ UNCHANGED <<impl, guest, sess, held>>

NextConcurrentClose ==
    \/ CallerContinues
    \/ DoNewWrapper
    \/ NewSessionCheck
    \/ NewSessionInstantiate
    \/ NewSessionReturn
    \/ CloseRuntime
    \/ CloseDeactivate
    \/ CloseReturn

SpecConcurrentClose == InitTwoSessions /\ [][NextConcurrentClose]_vars

-----------------------------------------------------------------------------
(* Decoding of result words: the guest answers every result entry point    *)
(* with a word out of ProbeWords, and the operation's Memory().Read shows   *)
(* the pointer and the length the operation decoded from it.               *)

\* the caller makes one call of any session operation
DecodeCall ==
    /\ Idle
    /\ nops < MaxDecodeOps
    /\ \E s \in DOMAIN sess, op \in SessionOps, m \in ShortMessages :
         /\ sess[s].exists
         /\ LET chunks == IF op = "FormatMessage" THEN 1 ELSE 0
                key == IF op = "Sign" THEN Rep(75, PRIVATE_KEY_SIZE) ELSE <<>>
                msg == IF op = "NewPrivateKey" THEN <<>> ELSE m
            IN \E o \in RunOp(sess[s], op, msg, chunks, key) :
                 Commit(s, op, msg, chunks, key, o)

NextDecode ==
    \/ CallerContinues
    \/ DoNewWrapper
    \/ NewSessionLive
    \/ DecodeCall

InitDecode == Start /\ guest = "probe"

SpecDecode == InitDecode /\ [][NextDecode]_vars

-----------------------------------------------------------------------------
(* Properties *)

\* positions of the trace of the last call
Pos == DOMAIN last.trace
At(i) == last.trace[i]

IsDealloc(i) == At(i).fn = "dealloc"
IsOkAlloc(i) == At(i).fn = "alloc" /\ At(i).res = "ok"
\* the deallocations deferred by the statement tagged site
DeallocsAt(site) == {j \in Pos : IsDealloc(j) /\ At(j).site = site}

\* C1: in FormatMessage, RecoverMessage, HashMessageToString, HashMessage and
\* Sign, every region a successful allocateSafe returned is handed to dealloc
\* exactly once by the cleanup deferred for it, after the allocation and before
\* the operation returns, whatever the exit path.
C1_AllocatedRegionsFreedOnce ==
    last.op \in SessionOps \ {"NewPrivateKey"} =>
        \A i \in Pos :
            IsOkAlloc(i) =>
                /\ Cardinality(DeallocsAt(At(i).site)) = 1
                /\ \A j \in DeallocsAt(At(i).site) : j > i /\ At(j).args[1] = At(i).ret

\* a Sign that allocated both regions and then recovered a panic
C1_Witness ==
    /\ last.op = "Sign"
    /\ last.pan
    /\ Cardinality({i \in Pos : IsOkAlloc(i)}) = 2

\* C2: once Close was called on a session, every session operation returns
\* ErrNoModule and makes no guest call and no guest memory access.
C2_ClosedSessionIsInert ==
    (last.op \in SessionOps /\ last.afterClose) =>
        /\ last.err = ErrNoModule
        /\ last.trace = <<>>
        /\ \A i \in DOMAIN last.vals : Deref(last.vals[i], sess[last.sid].mem) = <<>>

C2_Witness ==
    /\ last.op = "Sign"
    /\ last.afterClose
    /\ Len(last.key) = 59

\* C3: once the wrapper's Close was called the wrapper never becomes active
\* again, and every NewSession returns no session and ErrNoRuntime without
\* instantiating a guest module.
C3_ClosedWrapperStaysClosed ==
    [][ wrapper.closeCalled =>
          /\ ~wrapper'.runtimeActive
          /\ wrapper'.closeCalled
          /\ last'.op = "NewSession" =>
                (last'.err = ErrNoRuntime /\ last'.sid = 0 /\ ~last'.inst /\ sess' = sess)
      ]_vars

C3_Witness ==
    /\ last.op = "NewSession"
    /\ last.afterClose
    /\ last.err = ErrNoRuntime

\* C4: a panic raised in a session operation, in a guest call, while its result
\* is processed or inside a deferred cleanup, comes back as a non-nil error; it
\* does not escape, and every deferred deallocation that was registered has run.
C4_PanicsBecomeErrors ==
    (last.op \in SessionOps /\ last.pan) =>
        /\ last.err # NoErr
        /\ ~last.escaped
        /\ Cardinality({j \in Pos : IsDealloc(j)}) = last.ndefer

\* a panic inside a deferred deallocation, with two deallocations registered
C4_Witness ==
    /\ last.op \in SessionOps
    /\ last.pan
    /\ last.ndefer = 2
    /\ \E j \in Pos : IsDealloc(j) /\ At(j).res = "panic"

\* a result word whose pointer field is 0 and whose length field is not
NullPointerWord(w) == w % HalfBase = 0 /\ w \div HalfBase # 0

\* the deallocation at position j frees a region the guest returned as a result
FreesResult(j) ==
    /\ IsDealloc(j)
    /\ \/ At(j).site \in {"result", "address"}
       \/ At(j).site = "key" /\ last.op = "NewPrivateKey"

\* C5: when a guest entry point answers with a word whose pointer field is 0 and
\* whose length field is not 0, the operation returns an error, reads no guest
\* memory at offset 0 and frees no result region at pointer 0.
C5_NullPointerWordFails ==
    last.op \in SessionOps =>
        \A i \in Pos :
            (At(i).fn \in ResultFns /\ At(i).res = "ok" /\ NullPointerWord(At(i).ret)) =>
                /\ last.err # NoErr
                /\ \A j \in Pos :
                     j > i => /\ ~(At(j).fn = "mem.Read" /\ At(j).args[1] = 0)
                              /\ ~(FreesResult(j) /\ At(j).args[1] = 0)

\* C6: on an open session FormatMessage(m, c) with c < 1, c > 32 or
\* len(m) > c*512 returns an error and a nil buffer and touches the guest not at
\* all; otherwise validation passes and the guest is called, allocate first.
C6_FormatValidation ==
    (last.op = "FormatMessage" /\ ~last.wasClosed) =>
        IF last.chunks < 1 \/ last.chunks > 32 \/ Len(last.msg) > last.chunks * 512
        THEN /\ last.err \in {ErrChunks, ErrTooLong}
             /\ last.vals = <<NilBuf>>
             /\ last.trace = <<>>
        ELSE /\ last.err \notin {ErrChunks, ErrTooLong}
             /\ last.trace # <<>>
             /\ At(1).fn = "alloc"
             /\ At(1).args = <<Len(last.msg)>>

\* a message of exactly one block with one chunk went through to the guest
C6_Witness ==
    /\ last.op = "FormatMessage"
    /\ ~last.wasClosed
    /\ last.chunks = 1
    /\ Len(last.msg) = 512
    /\ \E i \in Pos : At(i).fn = "format_message"

\* C7: on an open session Sign(key, m) with len(key) # 59 returns an error and
\* an empty signature and makes no guest call and no guest memory access.
C7_SignRejectsKeySize ==
    (last.op = "Sign" /\ ~last.wasClosed /\ Len(last.key) # 59) =>
        /\ last.err = "invalid private key size"
        /\ last.vals = <<EmptyStr>>
        /\ last.trace = <<>>

C7_Witness ==
    /\ last.op = "Sign"
    /\ ~last.wasClosed
    /\ Len(last.key) = 58
    /\ last.err # NoErr

AllZero(b) == \A k \in DOMAIN b : b[k] = 0

\* C8: in the byte-key Sign, on every exit path after the key was written into
\* its guest region, that region is overwritten with zeros before it is freed.
C8_SignWipesKeyBeforeFree ==
    (impl = "bytes" /\ last.op = "Sign") =>
        \A i \in Pos :
            (At(i).fn = "mem.Write" /\ At(i).site = "key" /\ At(i).res = "ok") =>
                \A j \in DeallocsAt("key") :
                    \E k \in Pos :
                        /\ i < k /\ k < j
                        /\ At(k).fn = "mem.Write" /\ At(k).res = "ok"
                        /\ At(k).args = At(i).args
                        /\ AllZero(At(k).data)

\* the key region the guest returned to NewPrivateKey, as decodeLenPtr sees it
KeyRegion == decodeLenPtr(At(1).ret)

\* NewPrivateKey of the byte-key implementation got a key region from the guest
GotKeyRegion ==
    /\ impl = "bytes"
    /\ last.op = "NewPrivateKey"
    /\ last.trace # <<>>
    /\ At(1).fn = "new_private_key" /\ At(1).res = "ok"
    /\ KeyRegion[1] # 0 /\ KeyRegion[2] # 0

\* C9: once the guest returned a key region to the byte-key NewPrivateKey, on
\* every exit path a zero-fill of that region is attempted just before the
\* region is freed, and the region is freed exactly once.
C9_NewKeyWipesAndFreesOnce ==
    GotKeyRegion =>
        /\ Cardinality(DeallocsAt("key")) = 1
        /\ \A j \in DeallocsAt("key") :
             /\ At(j).args[1] = KeyRegion[1]
             /\ j > 1
             /\ At(j - 1).fn = "mem.Write"
             /\ At(j - 1).args = <<KeyRegion[1], KeyRegion[2]>>
             /\ At(j - 1).res = "ok" => AllZero(At(j - 1).data)

\* the key region was returned and the operation then failed on a panic
C9_Witness ==
    /\ GotKeyRegion
    /\ last.pan
    /\ \E k \in Pos : At(k).fn = "get_address"

\* C10: a buffer returned by NewPrivateKey, FormatMessage, RecoverMessage or
\* HashMessage keeps the bytes that were read out of guest memory (newlines
\* stripped for FormatMessage), whatever happens to guest memory afterwards.
C10_ReturnedBuffersAreCopies ==
    held.has => Deref(held.val, sess[held.sid].mem) = held.expect

\* the caller holds a key while a later Sign has rewritten guest memory
C10_Witness ==
    /\ held.has
    /\ held.op = "NewPrivateKey"
    /\ held.expect # <<>>
    /\ last.op = "Sign"
    /\ last.err = NoErr

\* C11 as amended: over any sequence of FormatMessage, HashMessage and Sign calls
\* on one session, failed calls included, the host calls dealloc once for every
\* region it came to hold: one per allocation that returned a pointer and one
\* per result region it read.
C11_DeallocsMatchRegions ==
    \A s \in DOMAIN sess : sess[s].deallocCalls = sess[s].regions

\* a call that failed, after at least two allocations on the session and with
\* more frees than allocations by then
C11_Witness ==
    /\ last.op \in CycleOps
    /\ last.err # NoErr
    /\ last.trace # <<>>
    /\ sess[last.sid].allocCalls >= 2
    /\ sess[last.sid].deallocCalls > sess[last.sid].allocCalls

\* C11: over any sequence of FormatMessage, HashMessage and Sign calls on one
\* open session, failed calls included, the host has called the guest's alloc
\* as often as the guest's dealloc.
C11_AllocCallsEqualDeallocCalls ==
    \A s \in DOMAIN sess : sess[s].allocCalls = sess[s].deallocCalls

\* C12: with a guest that answers every call successfully, NewPrivateKey and
\* any run of FormatMessage, HashMessage and Sign calls with the key
\* NewPrivateKey returned all succeed as long as the session was not closed, and
\* no operation leaves the session closed that found it open.
C12_CyclesKeepSucceeding ==
    last.op \in SessionOps =>
        /\ sess[last.sid].closed = last.wasClosed
        /\ ~last.wasClosed => last.err = NoErr

\* the second Sign of two full cycles succeeded with the key of NewPrivateKey
C12_Witness ==
    /\ last.op = "Sign"
    /\ last.err = NoErr
    /\ last.key = held.key
    /\ nops = 7
    /\ sess[last.sid].allocCalls = 8
    /\ sess[last.sid].deallocCalls = 14

\* C13: whenever NewPrivateKey returns a nil error, the key it returns has
\* exactly 59 bytes and the address exactly 63 bytes, whatever result words the
\* guest returned.
C13_KeyAndAddressSizes ==
    (last.op = "NewPrivateKey" /\ last.err = NoErr) =>
        /\ Len(Deref(last.vals[1], sess[last.sid].mem)) = PRIVATE_KEY_SIZE
        /\ Len(Deref(last.vals[2], sess[last.sid].mem)) = ADDRESS_SIZE

C15_MissingExportsAllNamed ==
    (last.op = "NewSession" /\ last.inst /\ ~(RequiredExports \subseteq last.exported)) =>
        /\ last.sid = 0
        /\ last.err = "missing required wasm exports"
        /\ last.missing = RequiredExports \ last.exported
        /\ last.instClosed

\* a module without alloc and dealloc
C15_Witness ==
    /\ last.op = "NewSession"
    /\ last.inst
    /\ last.exported = RequiredExports \ {"alloc", "dealloc"}
    /\ last.missing = {"alloc", "dealloc"}

\* C16: whenever NewWrapper returns a non-nil error after it had created the
\* runtime (host module error, compile error, recovered panic of a setup step),
\* it has closed that runtime before it returns.
C16_FailedNewWrapperClosesRuntime ==
    (last.op = "NewWrapper" /\ last.err # NoErr /\ last.rtCreated) => last.rtClosed

\* C17: after the wrapper was closed, every operation on a session it had handed
\* out before returns an error, the module instance reporting closed, and makes
\* no guest call and no guest memory access.
C17_SessionsFailAfterWrapperClose ==
    (last.op \in SessionOps /\ wrapper.closeCalled) =>
        /\ last.wasClosed
        /\ last.err = ErrNoModule
        /\ last.trace = <<>>

\* a session nobody closed is used after the wrapper was closed
C17_Witness ==
    /\ last.op = "HashMessage"
    /\ wrapper.closeCalled
    /\ ~last.afterClose
    /\ last.err = ErrNoModule

\* C18: a second or later Close of the wrapper, with or without NewSession calls
\* in between, changes nothing: the wrapper stays inactive, the sessions stay
\* as they were, and the call neither fails nor panics.
C18_WrapperCloseIdempotent ==
    [][ (wrapper.closeCalled /\ last'.op = "Wrapper.Close") =>
          /\ wrapper' = wrapper
          /\ ~wrapper'.runtimeActive
          /\ sess' = sess
          /\ last'.err = NoErr /\ ~last'.pan
      ]_vars

\* Close, a refused NewSession, and Close again
C18_Witness ==
    /\ last.op = "Wrapper.Close"
    /\ last.afterClose
    /\ wrapper.runtimeNil

\* C19: a session is open or closed; once closed it stays closed whatever is
\* called, and a Close of a closed session changes nothing else either.
C19_SessionClosedIsTerminal ==
    [][ \A s \in DOMAIN sess :
          sess[s].closed =>
             /\ sess'[s].closed
             /\ (last'.op = "Close" /\ last'.sid = s) =>
                   /\ sess' = [sess EXCEPT ![s].closeCalled = TRUE]
                   /\ wrapper' = wrapper
                   /\ last'.err = NoErr /\ ~last'.pan
      ]_vars

\* Close was called on a session that Close had closed before
C19_Witness ==
    /\ last.op = "Close"
    /\ last.wasClosed
    /\ last.afterClose

\* C20: sessions of one live wrapper are independent, also with one caller on
\* each at the same time: a step changes a session only if it is a step of that
\* session (its creation, the entry or the return of one of its operations, its
\* Close), so a running operation finds its module state and guest memory as
\* they were when it was entered, and closing one session leaves the other
\* open; NewSession on a live wrapper writes no wrapper state.
C20_SessionsIndependent ==
    [][ /\ \A s \in DOMAIN sess :
             /\ sess'[s] # sess[s] =>
                   \/ last'.sid = s /\ last'.op \in SessionOps \cup {"Close", "NewSession"}
                   \/ /\ sess'[s] = [sess[s] EXCEPT !.pending = sess'[s].pending]
                      /\ sess[s].pending = NoPending
             /\ sess'[s].pending # NoPending =>
                   /\ sess'[s].mem = sess'[s].pending.mem0
                   /\ sess'[s].closed = sess'[s].pending.closed0
        /\ (last'.op = "NewSession" /\ wrapper.runtimeActive /\ ~wrapper.runtimeNil) =>
             wrapper' = wrapper
      ]_vars

\* an operation returned on session 1, changing its guest memory, while an
\* operation was running on session 2
C20_Witness ==
    /\ last.op \in TwoOps
    /\ last.sid = 1
    /\ last.trace # <<>>
    /\ sess[1].mem # EmptyMem
    /\ sess[2].pending # NoPending

\* the text part occurs in the error text
Contains(text, part) ==
    \E k \in 1..(Len(text) - Len(part) + 1) : SubSeq(text, k, k + Len(part) - 1) = part

\* the tag of the statements that read and free the result of entry point fn
ResultSite(fn) ==
    CASE fn = "new_private_key" -> "key"
      [] fn = "get_address" -> "address"
      [] OTHER -> "result"

\* after position i the operation reads no guest memory and frees no region
\* the call at i returned
NoReadNoFreeAfter(i) ==
    \A j \in Pos :
        j > i => /\ At(j).fn # "mem.Read"
                 /\ ~(IsDealloc(j) /\ At(j).site = ResultSite(At(i).fn))

\* C21: in the byte-key implementation, when a result entry point returns no
\* result word the operation's error carries the text "empty return", and when
\* it returns the word 0 the operation returns an error without that text (the
\* error the operation itself returns: no cleanup call panicked afterwards); in
\* both cases the operation reads no guest memory after the call and hands no
\* result region of that call to dealloc.
C21_EmptyAndZeroWordDiffer ==
    (impl = "bytes" /\ last.op \in SessionOps) =>
        \A i \in Pos :
            At(i).fn \in ResultFns =>
                /\ At(i).res = "empty" =>
                      /\ NoReadNoFreeAfter(i)
                      /\ ~last.pan => Contains(last.err, "empty return")
                /\ (At(i).res = "ok" /\ At(i).ret = 0) =>
                      /\ NoReadNoFreeAfter(i)
                      /\ ~last.pan => (last.err # NoErr /\ ~Contains(last.err, "empty return"))

\* get_address of the byte-key NewPrivateKey returned no result word after the
\* key had been read
C21_Witness ==
    /\ impl = "bytes"
    /\ last.op = "NewPrivateKey"
    /\ ~last.pan
    /\ \E i \in Pos : At(i).fn = "get_address" /\ At(i).res = "empty"
    /\ Contains(last.err, "empty return")

\* C22: every result region a guest entry point returned with a non-zero pointer
\* is passed to dealloc exactly once before the operation returns, on every
\* exit path, the one where reading the region fails included.
C22_ResultRegionsFreedOnce ==
    last.op \in SessionOps =>
        \A i \in Pos :
            (At(i).fn \in ResultFns /\ At(i).res = "ok" /\ Uint32(At(i).ret) # 0) =>
                Cardinality({ j \in Pos : /\ j > i
                                          /\ IsDealloc(j)
                                          /\ At(j).site = ResultSite(At(i).fn)
                                          /\ Uint32(At(j).args[1]) = Uint32(At(i).ret) }) = 1

\* C23: every dealloc call the host makes for a region the guest produced as a
\* result passes 0 as its size argument, as the calls made through
\* deallocateSafe for the input buffers do.
C23_ResultDeallocSizeZero ==
    last.op \in SessionOps =>
        \A j \in Pos :
            IsDealloc(j) =>
                /\ FreesResult(j) => At(j).args[2] = 0
                /\ At(j).site = "input" => At(j).args[2] = 0

\* C24: when everything but the cleanup of an operation succeeds (every
\* allocation, write, guest call and read, with a result word that names a
\* region) and a deferred dealloc returns an error or a best-effort zero-fill
\* fails, the operation returns its result with a nil error and still makes
\* every dealloc call it had deferred.
C24_CleanupFailuresDoNotFail ==
    (/\ last.op \in SessionOps
     /\ last.trace # <<>>
     /\ \A i \in Pos :
          /\ (~IsDealloc(i) /\ At(i).site # "zero") => At(i).res = "ok"
          /\ IsDealloc(i) => At(i).res \in {"ok", "err"}
          /\ At(i).fn \in ResultFns =>
                (Uint32(At(i).ret) # 0 /\ At(i).ret \div HalfBase # 0)) =>
        /\ last.err = NoErr
        /\ ~last.pan
        /\ \A k \in DOMAIN last.vals :
              /\ ~last.vals[k].nil
              /\ Deref(last.vals[k], sess[last.sid].mem) # <<>>
        /\ last.ndefer >= 2
        /\ Cardinality({ j \in Pos : IsDealloc(j) }) = last.ndefer

\* a Sign whose first deferred dealloc to run returned an error: the other two
\* ran after it and the signature came back
C24_Witness ==
    /\ last.op = "Sign"
    /\ last.err = NoErr
    /\ Deref(last.vals[1], sess[last.sid].mem) # <<>>
    /\ \E j \in Pos :
          /\ IsDealloc(j) /\ At(j).res = "err"
          /\ Cardinality({ k \in Pos : k > j /\ IsDealloc(k) }) = 2

\* C25: when the write of an input buffer (the message, or the key of Sign)
\* into the region alloc returned fails, the operation returns an error, never
\* calls format_message, formatted_message_to_bytes, hash_message,
\* hash_message_bytes or sign, and passes every region alloc had returned to
\* dealloc afterwards; when the read of a result region fails, the operation
\* returns an error and empty results.
C25_FailedWriteAndRead ==
    last.op \in SessionOps =>
        \A i \in Pos :
            /\ (At(i).fn = "mem.Write" /\ At(i).site \in {"input", "key"} /\ At(i).res = "fail") =>
                  /\ last.err # NoErr
                  /\ \A j \in Pos : At(j).fn \notin ResultFns
                  /\ \A k \in Pos :
                        IsOkAlloc(k) =>
                            \E j \in DeallocsAt(At(k).site) : j > i /\ At(j).args[1] = At(k).ret
            /\ (At(i).fn = "mem.Read" /\ At(i).res = "fail") =>
                  /\ last.err # NoErr
                  /\ \A k \in DOMAIN last.vals : Deref(last.vals[k], sess[last.sid].mem) = <<>>

\* a Sign that wrote the message, then failed to write the key into the region
\* alloc had returned for it, and freed both regions
C25_Witness ==
    /\ last.op = "Sign"
    /\ \E i \in Pos : At(i).fn = "mem.Write" /\ At(i).site = "key" /\ At(i).res = "fail"
    /\ \E i \in Pos : At(i).fn = "mem.Write" /\ At(i).site = "input" /\ At(i).res = "ok"
    /\ Cardinality({ j \in Pos : IsDealloc(j) }) = 2
    /\ last.err = "failed to write private key to memory for signing"

\* C26: a successful FormatMessage returns a buffer without a newline byte that
\* holds the bytes of the guest's result region other than newlines, each once
\* and in their order.
C26_FormatStripsNewlines ==
    (last.op = "FormatMessage" /\ last.err = NoErr) =>
        LET out == Deref(last.vals[1], sess[last.sid].mem)
            raw == last.snap
            kept == { q \in DOMAIN raw : raw[q] # NL }
        IN /\ \A k \in DOMAIN out : out[k] # NL
           /\ Len(out) = Cardinality(kept)
           /\ \A q \in kept : out[Cardinality({ r \in kept : r <= q })] = raw[q]

\* the guest's text had two line breaks and three other bytes
C26_Witness ==
    /\ last.op = "FormatMessage"
    /\ last.err = NoErr
    /\ Cardinality({ q \in DOMAIN last.snap : last.snap[q] = NL }) = 2
    /\ Len(Deref(last.vals[1], sess[last.sid].mem)) = 3

\* C27: the pointer decoded from a result word w is w mod 2^32 and the length
\* is floor(w / 2^32), so the word l*2^32 + p decodes to (p, l): the region an
\* operation reads after a result call is that pointer and that length, with
\* decodeLenPtr (NewPrivateKey and Sign of the byte-key implementation) as with
\* the inline decoding of FormatMessage, RecoverMessage, HashMessageToString and
\* HashMessage, for every word.
C27_DecodeSplitsWord ==
    (/\ last.op \in SessionOps
     /\ impl = "string" => last.op \notin {"NewPrivateKey", "Sign"}) =>
        \A i \in Pos :
            (At(i).fn \in ResultFns /\ At(i).res = "ok") =>
                /\ At(i).ret \in ProbeWords
                /\ \A j \in Pos :
                      (/\ At(j).fn = "mem.Read"
                       /\ At(j).site = ResultSite(At(i).fn)
                       /\ j > i) =>
                          /\ At(j).args = << At(i).ret % HalfBase, At(i).ret \div HalfBase >>
                          /\ \E p \in ProbeHalves, l \in ProbeHalves :
                                At(i).ret = l * HalfBase + p /\ At(j).args = <<p, l>>

\* the byte-key Sign got the largest word and read at the largest pointer with
\* the largest length
C27_Witness ==
    /\ impl = "bytes"
    /\ last.op = "Sign"
    /\ \E i \in Pos :
          /\ At(i).fn = "sign"
          /\ At(i).ret = HalfBase * HalfBase - 1
    /\ \E j \in Pos :
          At(j).fn = "mem.Read" /\ At(j).args = << HalfBase - 1, HalfBase - 1 >>

\* C28: a recovered panic determines the error by its payload: the text of a
\* string payload, an error payload itself, "unknown panic" for anything else;
\* a session operation then returns the zero value of every other result, and
\* NewWrapper returns a nil wrapper and, as its cleanup function, a function
\* that does nothing.
C28_RecoveredPanicResults ==
    (last.op \in SessionOps \cup {"NewWrapper"} /\ last.pan) =>
        /\ last.payload.type \in {"string", "error", "other"}
        /\ last.payload.type \in {"string", "error"} => last.err = last.payload.text
        /\ last.payload.type = "other" => last.err = "unknown panic"
        /\ last.op \in SessionOps =>
              last.vals =
                 CASE last.op = "NewPrivateKey" ->
                        IF impl = "bytes" THEN <<NilBuf, EmptyStr>> ELSE <<EmptyStr, EmptyStr>>
                   [] last.op \in {"HashMessageToString", "Sign"} -> <<EmptyStr>>
                   [] OTHER -> <<NilBuf>>
        /\ last.op = "NewWrapper" => (~wrapper.exists /\ last.closeFn = "noop")

\* NewWrapper recovered a panic whose payload is an error
C28_Witness ==
    /\ last.op = "NewWrapper"
    /\ last.pan
    /\ last.payload = PanicError
    /\ last.err = PanicError.text
    /\ last.closeFn = "noop"

\* C28 as stated: after a recovered panic every result other than the error is
\* the zero value, for NewWrapper the nil cleanup function
C28_AllResultsZeroAfterPanic ==
    (last.op \in SessionOps \cup {"NewWrapper"} /\ last.pan) =>
        /\ last.payload.type \in {"string", "error"} => last.err = last.payload.text
        /\ last.payload.type = "other" => last.err = "unknown panic"
        /\ last.op \in SessionOps =>
              \A k \in DOMAIN last.vals : Deref(last.vals[k], sess[last.sid].mem) = <<>>
        /\ last.op = "NewWrapper" => (~wrapper.exists /\ last.closeFn = "nil")

\* C29: every session operation that was entered returns to its caller, with
\* every guest call of it answered by a result, an error or a fault; when it
\* returns, every cleanup it deferred has run; and guest memory changes in no
\* step other than the return of an operation: nothing runs in the background.
C29_OperationsReturn ==
    /\ \A s \in Sessions :
          (sess[s].pending # NoPending) ~>
              (/\ sess[s].pending = NoPending
               /\ last.sid = s
               /\ last.op \in SessionOps
               /\ Cardinality({ j \in Pos : IsDealloc(j) }) = last.ndefer)
    /\ [][ \A s \in Sessions :
              sess'[s].mem # sess[s].mem =>
                  (last'.sid = s /\ last'.op \in SessionOps /\ sess[s].pending # NoPending)
         ]_vars

\* a Sign that was entered has returned after three deferred cleanups
C29_Witness ==
    /\ last.op = "Sign"
    /\ sess[last.sid].pending = NoPending
    /\ last.ndefer = 3
    /\ Cardinality({ j \in Pos : IsDealloc(j) }) = 3


\* C30: whenever Sign returns a nil error, the signature it returns has exactly
\* 216 bytes, whatever result word the guest's sign entry point returned.
C30_SignatureSize ==
    (last.op = "Sign" /\ last.err = NoErr /\ ~last.pan) =>
        Len(Deref(last.vals[1], sess[last.sid].mem)) = SIGNATURE_SIZE


\* C31: when alloc returns the pointer 0 and no call error, the operation that
\* asked for the region returns an error, writes no bytes at offset 0 of guest
\* memory, does not call the guest function the region was meant for with the
\* pointer 0 and does not pass the pointer 0 to dealloc.
C31_NullAllocationFails ==
    last.op \in SessionOps =>
        \A i \in Pos :
            (IsOkAlloc(i) /\ At(i).ret = 0) =>
                /\ last.err # NoErr
                /\ \A j \in Pos :
                      j > i =>
                        /\ ~(At(j).fn = "mem.Write" /\ At(j).site = At(i).site
                               /\ At(j).args[1] = 0 /\ At(j).res = "ok" /\ At(j).data # <<>>)
                        /\ ~(At(j).site = "call"
                               /\ \/ At(j).args[1] = 0
                                  \/ At(j).fn = "sign" /\ At(j).args[3] = 0)
                        /\ ~(IsDealloc(j) /\ At(j).site = At(i).site /\ At(j).args[1] = 0)


\* C32: the pointer an operation passes to dealloc for a result region is the
\* pointer it read that result's bytes from, whatever word the guest returned,
\* a word whose high half is not 0 included.
C32_ResultFreedAtReadPointer ==
    last.op \in SessionOps =>
        \A j \in Pos :
            FreesResult(j) =>
                \A i \in Pos :
                    (At(i).fn = "mem.Read" /\ At(i).site = At(j).site) =>
                        At(j).args[1] = At(i).args[1]


\* C33: a session operation that returns a non-nil error returns the zero value
\* of every other result (nil key, empty address, nil buffer, empty string),
\* also when it fails after the key was copied into host memory.
C33_ErrorMeansZeroResults ==
    (last.op \in SessionOps /\ last.err # NoErr) =>
        last.vals =
           CASE last.op = "NewPrivateKey" ->
                  IF impl = "bytes" THEN <<NilBuf, EmptyStr>> ELSE <<EmptyStr, EmptyStr>>
             [] last.op \in {"HashMessageToString", "Sign"} -> <<EmptyStr>>
             [] OTHER -> <<NilBuf>>

\* NewPrivateKey read the key out of guest memory and then failed to get the
\* address
C33_Witness ==
    /\ last.op = "NewPrivateKey"
    /\ impl = "bytes"
    /\ \E i \in Pos : At(i).fn = "mem.Read" /\ At(i).site = "key" /\ At(i).res = "ok"
    /\ \E i \in Pos : At(i).fn = "get_address" /\ At(i).res = "err"
    /\ last.err = "failed to get address from the generated private key"
    /\ last.vals = <<NilBuf, EmptyStr>>


\* the place in the trace where the operation first touches the region tagged
\* site: it allocates it or reads its result there, next to the defer statement
\* that registers its deallocation
FirstAt(site) ==
    CHOOSE k \in Pos :
        /\ At(k).site = site /\ ~IsDealloc(k)
        /\ \A m \in Pos : (At(m).site = site /\ ~IsDealloc(m)) => k <= m

\* C34 as stated: once an operation has passed a region to dealloc it makes no
\* guest call other than dealloc and reads and writes no guest memory, and the
\* deallocations run in reverse order of their registration.
C34_DeallocsAfterLastAccess ==
    last.op \in SessionOps =>
        \A j \in Pos :
            IsDealloc(j) =>
                \A i \in Pos :
                    i > j => /\ IsDealloc(i)
                             /\ FirstAt(At(i).site) < FirstAt(At(j).site)

\* C34: the deallocations of an operation run after its last guest call and its
\* last read of guest memory, in reverse order of their registration. The one
\* access to guest memory after a deallocation is the zero-fill of the key
\* region in the cleanup of the byte-key NewPrivateKey: it follows the
\* deallocation of the address region and comes right before the deallocation
\* of the key region it fills.
C34_DeallocsLastInReverseOrder ==
    last.op \in SessionOps =>
        \A j \in Pos :
            IsDealloc(j) =>
                \A i \in Pos :
                    i > j =>
                      \/ /\ IsDealloc(i)
                         /\ FirstAt(At(i).site) < FirstAt(At(j).site)
                      \/ /\ At(i).fn = "mem.Write" /\ At(i).site = "zero"
                         /\ last.op = "NewPrivateKey" /\ impl = "bytes"
                         /\ At(j).site = "address"
                         /\ i + 1 \in Pos /\ IsDealloc(i + 1) /\ At(i + 1).site = "key"
                         /\ At(i + 1).args[1] = At(i).args[1]

\* the byte-key NewPrivateKey freed the address region, filled the key region
\* with zeros and freed it, in that order
C34_Witness ==
    /\ last.op = "NewPrivateKey"
    /\ impl = "bytes"
    /\ \E i \in Pos :
          /\ i + 2 = Len(last.trace)
          /\ IsDealloc(i) /\ At(i).site = "address"
          /\ At(i + 1).fn = "mem.Write" /\ At(i + 1).site = "zero" /\ At(i + 1).res = "ok"
          /\ IsDealloc(i + 2) /\ At(i + 2).site = "key"


\* the position holds a guest call that hands a region to the operation: a
\* successful alloc, or a result entry point that returned a word
GivesRegion(i) == IsOkAlloc(i) \/ (At(i).site = "call" /\ At(i).res = "ok")

\* the pointer of that region: what alloc returned, or the pointer field of the
\* result word
PointerAt(i) == IF IsOkAlloc(i) THEN At(i).ret ELSE Uint32(At(i).ret)

\* C35 as stated: when the result pointers the guest returned differ from the
\* pointers of the regions the operation allocated and from each other, the
\* operation passes no pointer value to dealloc twice.
C35_NoPointerFreedTwice ==
    (/\ last.op \in SessionOps
     /\ \A a, b \in Pos :
           (a # b /\ GivesRegion(a) /\ GivesRegion(b) /\ ~IsOkAlloc(a)) =>
               PointerAt(a) # PointerAt(b))
    => \A i, j \in Pos :
           (i # j /\ IsDealloc(i) /\ IsDealloc(j)) => At(i).args[1] # At(j).args[1]

\* C35: when the pointers of all regions the guest handed to the operation,
\* allocated regions and result regions alike, differ from each other, the
\* operation passes no pointer value to dealloc twice.
C35_DistinctRegionsFreedOnce ==
    (/\ last.op \in SessionOps
     /\ \A a, b \in Pos :
           (a # b /\ GivesRegion(a) /\ GivesRegion(b)) => PointerAt(a) # PointerAt(b))
    => \A i, j \in Pos :
           (i # j /\ IsDealloc(i) /\ IsDealloc(j)) => At(i).args[1] # At(j).args[1]

\* Sign got three regions at three different pointers and freed all three
C35_Witness ==
    /\ last.op = "Sign"
    /\ \A a, b \in Pos :
          (a # b /\ GivesRegion(a) /\ GivesRegion(b)) => PointerAt(a) # PointerAt(b)
    /\ Cardinality({ i \in Pos : GivesRegion(i) }) = 3
    /\ Cardinality({ At(i).args[1] : i \in { j \in Pos : IsDealloc(j) } }) = 3


\* C36: the check that the session's module is open comes before the checks of
\* the arguments: FormatMessage with a chunk count out of range or a message
\* that is too long, and Sign with a key that is not 59 bytes long, return
\* ErrNoModule on a closed session and the validation error on an open one.
C36_ClosedCheckPrecedesValidation ==
    LET badFormat == /\ last.op = "FormatMessage"
                     /\ \/ last.chunks < 1
                        \/ last.chunks > MAX_FORMAT_MESSAGE_CHUNKS
                        \/ Len(last.msg) > last.chunks * MESSAGE_FORMAT_BLOCK_SIZE
        badSign == last.op = "Sign" /\ Len(last.key) # PRIVATE_KEY_SIZE
    IN (badFormat \/ badSign) =>
          /\ last.trace = <<>>
          /\ IF last.wasClosed THEN last.err = ErrNoModule
             ELSE IF badSign THEN last.err = "invalid private key size"
             ELSE IF last.chunks < 1 \/ last.chunks > MAX_FORMAT_MESSAGE_CHUNKS
                  THEN last.err = ErrChunks
             ELSE last.err = ErrTooLong

\* FormatMessage with 33 chunks on a closed session
C36_Witness ==
    /\ last.op = "FormatMessage"
    /\ last.wasClosed
    /\ last.chunks = MAX_FORMAT_MESSAGE_CHUNKS + 1
    /\ last.err = ErrNoModule


\* C37: with NewSession and Close running concurrently on one wrapper, every
\* NewSession call returns ErrNoRuntime, or a session whose guest instance is
\* open when NewSession returns, or an error that the close did not cause.
C37_NewSessionDuringClose ==
    last.op = "NewSession" =>
        /\ ~last.escaped
        /\ IF last.err = NoErr
           THEN last.sid # 0 /\ ~last.instClosed
           ELSE last.err = ErrNoRuntime \/ ~last.rtClosed

=============================================================================
